---------------------------- MODULE Spec2Model ----------------------------
(***************************************************************************)
(* A model of the NTFS file-name index of MHZipy:                          *)
(*   src/src-tauri/src/mft.rs  (MftIndex: entries, search_index,           *)
(*                              build_index, monitor, search,              *)
(*                              reconstruct_path, rebuild_search_index,    *)
(*                              save_to_disk, load_from_disk)              *)
(*   src/src-tauri/src/lib.rs  (run: startup load; build_mft_index)        *)
(*                                                                         *)
(* Names and queries are sequences of characters, so that lower-casing and *)
(* substring search are computed and not assumed.  A path is a sequence of *)
(* components whose first component is the drive prefix; the empty         *)
(* sequence stands for Option::None.                                       *)
(***************************************************************************)
EXTENDS Integers, Sequences, FiniteSets, TLC

(***************************************************************************)
(* Program constants.                                                      *)
(***************************************************************************)
\* `for _ in 0..50` of reconstruct_path
MaxDepth == 50

\* `.take(500)` of search
SearchLimit == 500

\* the NTFS root record index compared with `parent & 0x0000_FFFF_FFFF_FFFF`
RootIndex == 5

\* The modulus of the low-48-bit mask.  The code's modulus is 2^48; TLC's
\* integers are 32 bits wide, so the model keeps the split of an FRN into
\* (sequence number, record index) with a smaller modulus.  Every record index
\* of the model is below it.
SlotBase == 1024

(***************************************************************************)
(* Bounds of the model.                                                    *)
(***************************************************************************)
\* files (other than the root directory) that may live on the volume
MaxFiles == 1

\* records the change journal may hold
MaxJournal == 2

\* calls of build_mft_index in one process run
MaxBuilds == 1

\* how far above SearchLimit the large search indexes reach
OverLimit == 2

\* how far above MaxDepth the long parent chains reach
OverDepth == 2

\* Entry Store writes by other threads during one path reconstruction
MaxWrites == 1

\* how many times a loop that makes no progress is followed round
MaxSpin == 2

(***************************************************************************)
(* File reference numbers, names, entries.                                 *)
(***************************************************************************)
Low48(frn) == frn % SlotBase

\* the FRN of record index i in its first incarnation
Frn(i) == SlotBase + i

\* the root directory: record index 5, sequence number 5
RootFrn == (RootIndex * SlotBase) + RootIndex

FileFrns == {Frn(RootIndex + i) : i \in 1..MaxFiles}

RootName == <<".">>

FileNames == {<<"a">>, <<"A", "b">>}

None == <<>>

\* PathBuf::from(drive_letter) followed by push("\\"): the prefix "C:\"
DrivePrefix == <<"C", ":", "\\">>

FileEntry(p, n, d) == [parent_frn |-> p, name |-> n, is_dir |-> d]

EmptyStore == [f \in {} |-> FileEntry(0, <<>>, FALSE)]

RootEntry == FileEntry(RootFrn, RootName, TRUE)

Min(a, b) == IF a < b THEN a ELSE b

Reverse(s) == [i \in 1..Len(s) |-> s[Len(s) + 1 - i]]

Take(s, n) == SubSeq(s, 1, Min(Len(s), n))

(***************************************************************************)
(* str::to_lowercase and str::contains over the model's alphabet.          *)
(***************************************************************************)
LowerChar(c) ==
    CASE c = "A" -> "a"
      [] c = "B" -> "b"
      [] OTHER -> c

Lower(s) == [i \in 1..Len(s) |-> LowerChar(s[i])]

Contains(s, q) ==
    \E i \in 1..(Len(s) - Len(q) + 1) : SubSeq(s, i, i + Len(q) - 1) = q

NameMatchesSuffix(name, query) ==
    LET n == Lower(name)
        q == Lower(query)
    IN  Len(q) <= Len(n) /\ SubSeq(n, Len(n) - Len(q) + 1, Len(n)) = q

\* the filter of search: `name.to_lowercase().contains(&query)`, the query
\* lower-cased once before the scan
NameMatches(name, query) == Contains(Lower(name), Lower(query))

(***************************************************************************)
(* reconstruct_path, one Entry Store lookup at a time.  A walk is the      *)
(* function's locals: the current FRN, the parts pushed so far, the number *)
(* of loop iterations done (each does one entries.get), and whether the    *)
(* loop is running, has ended towards Some(path), or returned None.        *)
(***************************************************************************)
WalkInit(frn) == [cur |-> frn, parts |-> <<>>, n |-> 0, st |-> "run"]

WalkStepNoMask(e, w) ==
    IF w.cur \in DOMAIN e
    THEN LET parent == e[w.cur].parent_frn
             parts == Append(w.parts, e[w.cur].name)
         IN  IF parent = w.cur \/ parent = 0 \/ parent = RootIndex
             THEN [cur |-> w.cur, parts |-> parts, n |-> w.n + 1, st |-> "some"]
             ELSE [cur |-> parent, parts |-> parts, n |-> w.n + 1,
                   st |-> IF w.n + 1 = MaxDepth THEN "some" ELSE "run"]
    ELSE IF w.cur = RootIndex
         THEN [w EXCEPT !.n = @ + 1, !.st = "some"]
         ELSE [w EXCEPT !.n = @ + 1, !.st = "none"]

WalkStepNoLimit(e, w) ==
    IF w.cur \in DOMAIN e
    THEN LET parent == e[w.cur].parent_frn
             parts == Append(w.parts, e[w.cur].name)
         IN  IF parent = w.cur \/ parent = 0 \/ Low48(parent) = RootIndex
             THEN [cur |-> w.cur, parts |-> parts, n |-> w.n + 1, st |-> "some"]
             ELSE [cur |-> parent, parts |-> parts, n |-> w.n + 1, st |-> "run"]
    ELSE IF Low48(w.cur) = RootIndex
         THEN [w EXCEPT !.n = @ + 1, !.st = "some"]
         ELSE [w EXCEPT !.n = @ + 1, !.st = "none"]

WalkStep(e, w) ==
    IF w.cur \in DOMAIN e
    THEN LET parent == e[w.cur].parent_frn
             parts == Append(w.parts, e[w.cur].name)
         IN  IF parent = w.cur \/ parent = 0 \/ Low48(parent) = RootIndex
             THEN [cur |-> w.cur, parts |-> parts, n |-> w.n + 1, st |-> "some"]
             ELSE [cur |-> parent, parts |-> parts, n |-> w.n + 1,
                   st |-> IF w.n + 1 = MaxDepth THEN "some" ELSE "run"]
    ELSE IF Low48(w.cur) = RootIndex
         THEN [w EXCEPT !.n = @ + 1, !.st = "some"]
         ELSE [w EXCEPT !.n = @ + 1, !.st = "none"]

\* the parts under the drive prefix as they were pushed, leaf first
WalkResultLeafFirst(w) ==
    IF w.st = "none" THEN None ELSE <<DrivePrefix>> \o w.parts

\* the tail of reconstruct_path: reverse the parts under the drive prefix
WalkResult(w) ==
    IF w.st = "none" THEN None ELSE <<DrivePrefix>> \o Reverse(w.parts)

RECURSIVE WalkRun(_, _)
WalkRun(e, w) == IF w.st = "run" THEN WalkRun(e, WalkStep(e, w)) ELSE w

\* reconstruct_path against a store nobody changes meanwhile
reconstruct_path(e, frn) == WalkResult(WalkRun(e, WalkInit(frn)))

\* Path::file_name: the last component, none for the bare drive prefix
Basename(path) == IF Len(path) > 1 THEN path[Len(path)] ELSE None

(***************************************************************************)
(* search against an index nobody changes meanwhile.                       *)
(***************************************************************************)
Matching(idx, query) == SelectSeq(idx, LAMBDA p : NameMatches(p.name, query))

Reconstructed(e, cand) ==
    LET paths == [i \in 1..Len(cand) |-> reconstruct_path(e, cand[i].frn)]
    IN  SelectSeq(paths, LAMBDA p : p # None)

SearchTakeFirst(e, idx, query) ==
    Reconstructed(e, Take(Matching(idx, query), SearchLimit))

SearchNoTake(e, idx, query) == Reconstructed(e, Matching(idx, query))

search(e, idx, query) == Take(Reconstructed(e, Matching(idx, query)), SearchLimit)

\* rebuild_search_index: one pair per entry, in the map's iteration order
RECURSIVE SeqOfKeys(_)
SeqOfKeys(S) ==
    IF S = {} THEN <<>>
    ELSE LET k == CHOOSE x \in S : \A y \in S : x <= y
         IN  <<k>> \o SeqOfKeys(S \ {k})

IndexOf(e) ==
    LET ks == SeqOfKeys(DOMAIN e)
    IN  [i \in 1..Len(ks) |-> [frn |-> ks[i], name |-> e[ks[i]].name]]

IdxFrns(idx) == {idx[i].frn : i \in 1..Len(idx)}

CountFrn(idx, f) == Cardinality({i \in 1..Len(idx) : idx[i].frn = f})

(***************************************************************************)
(* State.                                                                  *)
(*  The program:                                                           *)
(*   entries       MftIndex.entries: the Entry Store, FRN -> FileEntry     *)
(*   search_index  MftIndex.search_index: the Vec<(u64, String)>           *)
(*   readers       holders of the read side of search_index's RwLock; the  *)
(*                 write side is taken and released within one action      *)
(*   loader        the startup thread of run(): load_from_disk, then the   *)
(*                 tailer and the readiness event                          *)
(*   builder       the build_mft_index command: build_index, save_to_disk, *)
(*                 then the tailer; `seen` holds the named records the     *)
(*                 enumeration of the current or last call has delivered   *)
(*   tailers       the threads running monitor(), in spawn order           *)
(*   srch          a search call in progress                               *)
(*   calls         the search calls that returned against the present      *)
(*                 index: the query and the returned paths, latest last    *)
(*   walk          one reconstruct_path call in progress: its locals, the  *)
(*                 Entry Store lookups it has done, and what it returned   *)
(*   writes        Entry Store writes other threads made during the walk   *)
(*  Its surroundings:                                                      *)
(*   vol           the volume's MFT: the live files, each with its parent, *)
(*                 name, kind and the USN of its last journal record       *)
(*   journal       the USN change journal; record i has USN i              *)
(*   disk          the snapshot file mft_index.bin                         *)
(*   sink          the file-changes notifications delivered, in order      *)
(*   ready         the index-ready events delivered                        *)
(*  History, read by no action:                                            *)
(*   owed          per file FRN: "fresh" once a tailer has pushed its pair *)
(*                 for a create-class record, "rebuilt" once the Search    *)
(*                 Index has been rebuilt after that, "none" at the start  *)
(*                 and once a tailer has pruned the pair for a             *)
(*                 delete-class record                                     *)
(***************************************************************************)
VARIABLES entries, search_index, readers, loader, builder, tailers, srch,
          calls, walk, writes, vol, journal, disk, sink, ready, owed

vars == <<entries, search_index, readers, loader, builder, tailers, srch,
          calls, walk, writes, vol, journal, disk, sink, ready, owed>>

\* the variables of the running process and of its surroundings that the
\* single-call specifications leave alone
procVars == <<readers, loader, builder, tailers, srch, vol, journal, disk,
              sink, ready, owed>>

NoWalk == [pc |-> "idle", w |-> WalkInit(0), lookups |-> 0, ret |-> None]

(***************************************************************************)
(* The volume and the process at rest.                                     *)
(***************************************************************************)
\* the journal id FSCTL_QUERY_USN_JOURNAL reports for the volume
VolJournalId == "J1"

MftRecord(p, n, d, u) == [parent_frn |-> p, name |-> n, is_dir |-> d, usn |-> u]

RootRecord == MftRecord(RootFrn, RootName, TRUE, 0)

\* the first file record is a directory, the next a plain file, and so on
IsDirFrn(frn) == Low48(frn) % 2 = 0

\* the entry build_index decodes from an MFT record
EntryOf(rec) == FileEntry(rec.parent_frn, rec.name, rec.is_dir)

StoreOf(v) == [f \in DOMAIN v |-> EntryOf(v[f])]

NoFile == [kind |-> "none", entries |-> EmptyStore, next_usn |-> 0, journal_id |-> ""]

CorruptFile == [kind |-> "corrupt", entries |-> EmptyStore, next_usn |-> 0, journal_id |-> ""]

Snapshot(e, u, j) == [kind |-> "ok", entries |-> e, next_usn |-> u, journal_id |-> j]

LoaderAt(pc, data, todo) == [pc |-> pc, data |-> data, todo |-> todo]

BuilderAt(pc, u, j, cursor, builds, res) ==
    [pc |-> pc, u |-> u, j |-> j, cursor |-> cursor, builds |-> builds,
     res |-> res, count |-> 0, seen |-> EmptyStore, handles |-> 0,
     buf |-> <<>>, size |-> 0, done |-> <<>>, stalled |-> FALSE, repeats |-> 0]

NoSearch == [pc |-> "idle", q |-> <<>>, cand |-> <<>>, pos |-> 0,
             w |-> WalkInit(0), out |-> <<>>]

NoneOwed == [f \in FileFrns |-> "none"]

\* the history after the Search Index is replaced by rebuild_search_index
OwedAfterRebuild == [f \in FileFrns |-> IF owed[f] = "fresh" THEN "rebuilt" ELSE owed[f]]

\* no process, no volume activity: the state around a single call
ProcIdle ==
    /\ readers = 0
    /\ loader = LoaderAt("done", NoFile, {})
    /\ builder = BuilderAt("idle", 0, "", 0, 0, "none")
    /\ tailers = <<>>
    /\ srch = NoSearch
    /\ vol = [f \in {RootFrn} |-> RootRecord]
    /\ journal = <<>>
    /\ disk = NoFile
    /\ sink = <<>>
    /\ ready = 0
    /\ owed = NoneOwed

(***************************************************************************)
(* Search over index states nobody changes: the inputs of search.          *)
(***************************************************************************)
Queries == {<<>>, <<"a">>, <<"a", "b">>, <<"B">>}

\* q2 is q1 with more characters typed after it
Extends(q2, q1) == Len(q1) < Len(q2) /\ SubSeq(q2, 1, Len(q1)) = q1

\* FRNs of the small stores: the root, a directory, a file, and the bare
\* record index 5 (sequence number 0)
SmallFrns == {RootFrn, Frn(RootIndex + 1), Frn(RootIndex + 2)}

SmallParents == {0, RootFrn, Frn(RootIndex + 1), Frn(RootIndex + 2)}

SmallEntries(f) ==
    IF f = RootFrn THEN {RootEntry}
    ELSE {FileEntry(p, n, FALSE) : p \in SmallParents \ {0}, n \in FileNames}
           \cup {FileEntry(0, <<"a">>, FALSE)}

SmallStores ==
    UNION {{e \in [K -> UNION {SmallEntries(f) : f \in K}] :
               \A f \in K : e[f] \in SmallEntries(f)}
           : K \in SUBSET SmallFrns}

\* the stores a stale Search Index may have been built from
SmallOldStores == {e \in SmallStores : \A f \in DOMAIN e : e[f].parent_frn = RootFrn}

\* a large flat volume: n files under the root, the first `SearchLimit` named
\* "a" and the rest "Ab"; `hole` lists the positions whose entry is gone from
\* the Entry Store while its pair is still in the Search Index
LargeName(k) == IF k <= SearchLimit THEN <<"a">> ELSE <<"A", "b">>

LargeIndex(n) ==
    [k \in 1..n |-> [frn |-> Frn(RootIndex + k), name |-> LargeName(k)]]

LargeStore(n, hole) ==
    [f \in {Frn(RootIndex + k) : k \in (1..n) \ hole} |->
        FileEntry(RootFrn, LargeName(f - Frn(RootIndex)), FALSE)]

LargeSizes == (SearchLimit - 1)..(SearchLimit + OverLimit)

LargeHoles == {{}, {1}, {1, 2}}

InitSearch ==
    /\ ProcIdle
    /\ calls = <<>>
    /\ walk = NoWalk
    /\ writes = 0
    /\ \/ /\ entries \in SmallStores
          /\ \E old \in SmallOldStores : search_index = IndexOf(old)
       \/ \E n \in LargeSizes, hole \in LargeHoles :
             /\ entries = LargeStore(n, hole)
             /\ search_index = LargeIndex(n)

LastCall(cs) == IF cs = <<>> THEN <<>> ELSE <<cs[Len(cs)]>>

\* search(query) returns; the last two calls are kept
SearchCall(query) ==
    /\ calls' = LastCall(calls)
                  \o <<[q |-> query, out |-> search(entries, search_index, query)]>>
    /\ UNCHANGED <<entries, search_index, walk, writes, procVars>>

NextSearch == \E query \in Queries : SearchCall(query)

SpecSearch == InitSearch /\ [][NextSearch]_vars

(***************************************************************************)
(* Claims about search as a function of the index state.                   *)
(***************************************************************************)
\* the Search Index positions whose name matches the query and whose path
\* reconstructs against the Entry Store
Hits(query) ==
    {i \in 1..Len(search_index) :
        /\ NameMatches(search_index[i].name, query)
        /\ reconstruct_path(entries, search_index[i].frn) # None}

\* the matching positions, reconstructible or not
Candidates(query) ==
    {i \in 1..Len(search_index) : NameMatches(search_index[i].name, query)}

Basenames(paths) == {Basename(paths[i]) : i \in 1..Len(paths)}

\* C5: every search call returns at most 500 paths, and returns 500 of them
\* whenever 500 or more matching entries have a reconstructible path: an
\* entry whose path cannot be reconstructed takes none of the 500 places.
C5_AtMostLimitAfterReconstruction ==
    \A i \in 1..Len(calls) :
        /\ Len(calls[i].out) <= SearchLimit
        /\ Len(calls[i].out) = Min(SearchLimit, Cardinality(Hits(calls[i].q)))

\* the empty query on an index of more than 500 pairs, two of the first 500
\* without a path, returns 500 paths
C5_Witness ==
    \E i \in 1..Len(calls) :
        /\ calls[i].q = <<>>
        /\ Cardinality(Candidates(<<>>)) = Len(search_index)
        /\ Len(search_index) > SearchLimit
        /\ \E k \in Candidates(<<>>) \ Hits(<<>>) : k <= SearchLimit
        /\ Len(calls[i].out) = SearchLimit

\* C6 as stated: when q2 extends q1, every basename search(q2) returns that
\* contains q1 is among the basenames search(q1) returns.
C6_MonotoneUnderNarrowing ==
    \A i, j \in 1..Len(calls) :
        Extends(calls[j].q, calls[i].q) =>
            \A b \in Basenames(calls[j].out) :
                NameMatches(b, calls[i].q) => b \in Basenames(calls[i].out)

\* C6 amended: the same, for a search(q1) that the limit of 500 did not cut.
C6_MonotoneWhenNotTruncated ==
    \A i, j \in 1..Len(calls) :
        (Extends(calls[j].q, calls[i].q) /\ Len(calls[i].out) < SearchLimit) =>
            \A b \in Basenames(calls[j].out) :
                NameMatches(b, calls[i].q) => b \in Basenames(calls[i].out)

\* both searches return something, the narrower one a name the wider has
C6_Witness ==
    \E i, j \in 1..Len(calls) :
        /\ Extends(calls[j].q, calls[i].q)
        /\ calls[i].q # <<>>
        /\ Len(calls[i].out) < SearchLimit
        /\ Len(calls[i].out) > Len(calls[j].out)
        /\ \E b \in Basenames(calls[j].out) :
              NameMatches(b, calls[i].q) /\ b \in Basenames(calls[i].out)

(***************************************************************************)
(* One reconstruct_path call, lookup by lookup, while other threads write  *)
(* the Entry Store (DashMap insert, remove and clear are atomic per key).  *)
(***************************************************************************)
\* a chain of n directories, each the parent of the one below, the top one a
\* child of the root; the walk starts at the bottom, Frn(RootIndex + 1)
ChainStore(n) ==
    [f \in {Frn(RootIndex + k) : k \in 1..n} \cup {RootFrn} |->
        IF f = RootFrn THEN RootEntry
        ELSE IF f = Frn(RootIndex + n) THEN FileEntry(RootFrn, <<"a">>, TRUE)
        ELSE FileEntry(f + 1, <<"a">>, TRUE)]

ChainSizes == (MaxDepth - 1)..(MaxDepth + OverDepth)

\* the FRNs a walk is asked for: resident or not, the root, the bare index 5
WalkTargets == SmallFrns \cup {RootIndex, Frn(RootIndex + 3)}

WriteFrns == SmallFrns \ {RootFrn}

InitPath ==
    /\ ProcIdle
    /\ entries \in SmallStores \cup {ChainStore(n) : n \in ChainSizes}
    /\ search_index = <<>>
    /\ calls = <<>>
    /\ walk = NoWalk
    /\ writes = 0

\* reconstruct_path(&frn) is entered
WalkBegin(frn) ==
    /\ walk.pc = "idle"
    /\ walk' = [pc |-> "loop", w |-> WalkInit(frn), lookups |-> 0, ret |-> None]
    /\ UNCHANGED <<entries, search_index, calls, writes, procVars>>

\* one iteration of the loop: one entries.get
WalkLookup ==
    /\ walk.pc = "loop"
    /\ walk.w.st = "run"
    /\ walk' = [walk EXCEPT !.w = WalkStep(entries, walk.w), !.lookups = @ + 1]
    /\ UNCHANGED <<entries, search_index, calls, writes, procVars>>

\* the loop has ended: `return None`, or the path is composed and returned
WalkReturn ==
    /\ walk.pc = "loop"
    /\ walk.w.st # "run"
    /\ walk' = [walk EXCEPT !.pc = "ret", !.ret = WalkResult(walk.w)]
    /\ UNCHANGED <<entries, search_index, calls, writes, procVars>>

\* another thread's entries.insert during the walk
PathInsert(frn, ent) ==
    /\ walk.pc = "loop"
    /\ writes < MaxWrites
    /\ entries' = [f \in DOMAIN entries \cup {frn} |->
                      IF f = frn THEN ent ELSE entries[f]]
    /\ writes' = writes + 1
    /\ UNCHANGED <<search_index, calls, walk, procVars>>

\* another thread's entries.remove during the walk
PathRemove(frn) ==
    /\ walk.pc = "loop"
    /\ writes < MaxWrites
    /\ frn \in DOMAIN entries
    /\ entries' = [f \in DOMAIN entries \ {frn} |-> entries[f]]
    /\ writes' = writes + 1
    /\ UNCHANGED <<search_index, calls, walk, procVars>>

\* another thread's entries.clear during the walk
PathClear ==
    /\ walk.pc = "loop"
    /\ writes < MaxWrites
    /\ entries' = EmptyStore
    /\ writes' = writes + 1
    /\ UNCHANGED <<search_index, calls, walk, procVars>>

NextPath ==
    \/ \E frn \in WalkTargets : WalkBegin(frn)
    \/ WalkLookup
    \/ WalkReturn
    \/ \E frn \in WriteFrns : \E ent \in SmallEntries(frn) : PathInsert(frn, ent)
    \/ \E frn \in WriteFrns : PathRemove(frn)
    \/ PathClear

SpecPath == InitPath /\ [][NextPath]_vars

\* C10: a path reconstruction does at most 50 Entry Store lookups, is over
\* once it has done 50, and returns None or a path that starts with the drive
\* prefix and has at most 50 names, whatever the store holds (parent cycles,
\* chains deeper than 50) and whatever is written to it meanwhile.
C10_ReconstructTerminates ==
    /\ walk.lookups <= MaxDepth
    /\ (walk.pc = "loop" /\ walk.lookups = MaxDepth) => walk.w.st # "run"
    /\ walk.pc = "ret" =>
          \/ walk.ret = None
          \/ /\ walk.ret[1] = DrivePrefix
             /\ Len(walk.ret) <= 1 + MaxDepth

\* a walk around a parent cycle returned a path after exactly 50 lookups
C10_Witness ==
    /\ walk.pc = "ret"
    /\ walk.lookups = MaxDepth
    /\ Len(walk.ret) = 1 + MaxDepth
    /\ walk.w.cur \in DOMAIN entries
    /\ LET p == entries[walk.w.cur].parent_frn
       IN  /\ p # walk.w.cur
           /\ p \in DOMAIN entries
           /\ entries[p].parent_frn = walk.w.cur

(***************************************************************************)
(* The running process: the volume changes, the startup thread loads the   *)
(* snapshot, build_mft_index is called, the tailers follow the journal.    *)
(***************************************************************************)
\* store operations of DashMap
StoreInsert(e, frn, ent) ==
    [f \in DOMAIN e \cup {frn} |-> IF f = frn THEN ent ELSE e[f]]

StoreRemove(e, frn) == [f \in DOMAIN e \ {frn} |-> e[f]]

\* Vec::retain(|(entry_frn, _)| *entry_frn != frn)
Retain(idx, frn) == SelectSeq(idx, LAMBDA p : p.frn # frn)

\* a USN_RECORD_V2 of the journal; `len` tells whether its RecordLength is
\* in order ("ok"), zero ("zero") or runs past the bytes returned ("over")
JournalRecord(frn, rec, reason) ==
    [frn |-> frn, parent_frn |-> rec.parent_frn, name |-> rec.name,
     is_dir |-> rec.is_dir, reason |-> reason, len |-> "ok"]

NextUsn == Len(journal) + 1

\* what a change on the volume leaves alone
volRest == <<entries, search_index, readers, loader, builder, tailers, srch,
             calls, walk, writes, disk, sink, ready, owed>>

VolFiles == DOMAIN vol \ {RootFrn}

\* a file or directory is created under the root or under a live directory;
\* its FRN is one the volume has not used before
VolCreate(frn, parent, name) ==
    /\ Len(journal) < MaxJournal
    /\ frn \in FileFrns \ DOMAIN vol
    /\ \A i \in 1..Len(journal) : journal[i].frn # frn
    /\ parent \in DOMAIN vol
    /\ vol[parent].is_dir
    /\ LET rec == MftRecord(parent, name, IsDirFrn(frn), NextUsn)
       IN  /\ vol' = StoreInsert(vol, frn, rec)
           /\ journal' = Append(journal, JournalRecord(frn, rec, {"FILE_CREATE"}))
    /\ UNCHANGED volRest

\* a file or an empty directory is deleted
VolDelete(frn) ==
    /\ Len(journal) < MaxJournal
    /\ frn \in VolFiles
    /\ \A g \in VolFiles : vol[g].parent_frn # frn
    /\ vol' = StoreRemove(vol, frn)
    /\ journal' = Append(journal, JournalRecord(frn, vol[frn], {"FILE_DELETE"}))
    /\ UNCHANGED volRest

\* a rename in place: a record with the old name, then one with the new name
VolRename(frn, name) ==
    /\ Len(journal) + 2 <= MaxJournal
    /\ frn \in VolFiles
    /\ name # vol[frn].name
    /\ LET rec == MftRecord(vol[frn].parent_frn, name, vol[frn].is_dir, NextUsn + 1)
       IN  /\ vol' = StoreInsert(vol, frn, rec)
           /\ journal' = journal \o
                  <<JournalRecord(frn, vol[frn], {"RENAME_OLD_NAME"}),
                    JournalRecord(frn, rec, {"RENAME_NEW_NAME"})>>
    /\ UNCHANGED volRest

\* a change that is neither a create, a delete nor a rename (a data write)
VolModify(frn) ==
    /\ Len(journal) < MaxJournal
    /\ frn \in VolFiles
    /\ vol' = [vol EXCEPT ![frn].usn = NextUsn]
    /\ journal' = Append(journal, JournalRecord(frn, vol[frn], {"DATA_EXTEND"}))
    /\ UNCHANGED volRest

(***************************************************************************)
(* The startup thread of run().                                            *)
(***************************************************************************)
\* a monitor thread: read_data.StartUsn and read_data.UsnJournalID, the first
\* 8 bytes of `buffer` (0 before the first buffer), the records of the buffer
\* that have been walked (`done`) and those still to be walked (`buf`),
\* whether the last entries.get of a delete-class record found an entry,
\* `changes`, and the USN it started from
NewTailer(u, j) ==
    [pc |-> "open", start_usn |-> u, journal_id |-> j, prefix |-> 0,
     buf |-> <<>>, done |-> <<>>, found |-> FALSE, changes |-> <<>>, from |-> u]

\* what the startup thread leaves alone
loadRest == <<readers, builder, srch, calls, walk, writes, vol, journal, disk,
              sink>>

\* `index_path.exists()` is false: nothing is loaded
LoadNoFile ==
    /\ loader.pc = "start"
    /\ disk.kind = "none"
    /\ loader' = [loader EXCEPT !.pc = "done"]
    /\ UNCHANGED <<entries, search_index, tailers, ready>>
    /\ UNCHANGED loadRest
    /\ UNCHANGED owed

LoadFailReady ==
    /\ loader.pc = "start"
    /\ disk.kind = "corrupt"
    /\ loader' = [loader EXCEPT !.pc = "done"]
    /\ ready' = ready + 1
    /\ UNCHANGED <<entries, search_index, tailers>>
    /\ UNCHANGED loadRest
    /\ UNCHANGED owed

\* load_from_disk fails to deserialize the file: the store is not touched
LoadFail ==
    /\ loader.pc = "start"
    /\ disk.kind = "corrupt"
    /\ loader' = [loader EXCEPT !.pc = "done"]
    /\ UNCHANGED <<entries, search_index, tailers, ready>>
    /\ UNCHANGED loadRest
    /\ UNCHANGED owed

\* load_from_disk reads and deserializes the file
LoadRead ==
    /\ loader.pc = "start"
    /\ disk.kind = "ok"
    /\ loader' = [loader EXCEPT !.pc = "clear", !.data = disk]
    /\ UNCHANGED <<entries, search_index, tailers, ready>>
    /\ UNCHANGED loadRest
    /\ UNCHANGED owed

\* self.entries.clear()
LoadClear ==
    /\ loader.pc = "clear"
    /\ entries' = EmptyStore
    /\ loader' = [loader EXCEPT !.pc = "insert", !.todo = DOMAIN loader.data.entries]
    /\ UNCHANGED <<search_index, tailers, ready>>
    /\ UNCHANGED loadRest
    /\ UNCHANGED owed

\* one self.entries.insert(k, v) of the loop over the stored entries
LoadInsert ==
    /\ loader.pc = "insert"
    /\ loader.todo # {}
    /\ LET k == CHOOSE x \in loader.todo : \A y \in loader.todo : x <= y
       IN  /\ entries' = StoreInsert(entries, k, loader.data.entries[k])
           /\ loader' = [loader EXCEPT !.todo = @ \ {k}]
    /\ UNCHANGED <<search_index, tailers, ready>>
    /\ UNCHANGED loadRest
    /\ UNCHANGED owed

\* self.rebuild_search_index() under the write lock
LoadRebuild ==
    /\ loader.pc = "insert"
    /\ loader.todo = {}
    /\ readers = 0
    /\ search_index' = IndexOf(entries)
    /\ loader' = [loader EXCEPT !.pc = "spawn"]
    /\ UNCHANGED <<entries, tailers, ready>>
    /\ UNCHANGED loadRest
    /\ owed' = OwedAfterRebuild

\* the monitor thread is spawned from the loaded anchor
LoadSpawn ==
    /\ loader.pc = "spawn"
    /\ tailers' = Append(tailers, NewTailer(loader.data.next_usn, loader.data.journal_id))
    /\ loader' = [loader EXCEPT !.pc = "ready"]
    /\ UNCHANGED <<entries, search_index, ready>>
    /\ UNCHANGED loadRest
    /\ UNCHANGED owed

\* app_handle.emit("index-ready", true)
LoadReady ==
    /\ loader.pc = "ready"
    /\ ready' = ready + 1
    /\ loader' = [loader EXCEPT !.pc = "done"]
    /\ UNCHANGED <<entries, search_index, tailers>>
    /\ UNCHANGED loadRest
    /\ UNCHANGED owed


(***************************************************************************)
(* build_mft_index: build_index, save_to_disk, then the monitor thread.    *)
(***************************************************************************)
\* what the command leaves alone
buildRest == <<readers, loader, srch, calls, walk, writes, vol, journal, sink,
               ready>>

\* the command returns Err to the host
BuildErr == [builder EXCEPT !.pc = "idle", !.builds = @ + 1, !.res = "err"]

\* the command is invoked and get_volume_handle succeeds
BuildOpen ==
    /\ builder.pc = "idle"
    /\ builder.builds < MaxBuilds
    /\ builder' = [builder EXCEPT !.pc = "clear", !.res = "none",
                                  !.seen = EmptyStore, !.handles = @ + 1]
    /\ UNCHANGED <<entries, search_index, tailers, disk>>
    /\ UNCHANGED buildRest
    /\ UNCHANGED owed

\* the command is invoked and get_volume_handle fails: `?` returns the error
BuildOpenFail ==
    /\ builder.pc = "idle"
    /\ builder.builds < MaxBuilds
    /\ builder' = BuildErr
    /\ UNCHANGED <<entries, search_index, tailers, disk>>
    /\ UNCHANGED buildRest
    /\ UNCHANGED owed

\* self.entries.clear()
BuildClear ==
    /\ builder.pc = "clear"
    /\ entries' = EmptyStore
    /\ builder' = [builder EXCEPT !.pc = "query"]
    /\ UNCHANGED <<search_index, tailers, disk>>
    /\ UNCHANGED buildRest
    /\ UNCHANGED owed

\* FSCTL_QUERY_USN_JOURNAL: NextUsn and UsnJournalID are recorded and the
\* enumeration starts at FRN 0 with HighUsn = NextUsn
BuildQuery ==
    /\ builder.pc = "query"
    /\ builder' = [builder EXCEPT !.pc = "enum", !.u = NextUsn,
                                  !.j = VolJournalId, !.cursor = 0]
    /\ UNCHANGED <<entries, search_index, tailers, disk>>
    /\ UNCHANGED buildRest
    /\ UNCHANGED owed

\* FSCTL_QUERY_USN_JOURNAL fails: `?` returns the error
BuildQueryFail ==
    /\ builder.pc = "query"
    /\ builder' = BuildErr
    /\ UNCHANGED <<entries, search_index, tailers, disk>>
    /\ UNCHANGED buildRest
    /\ UNCHANGED owed

\* the MFT records FSCTL_ENUM_USN_DATA has yet to return: in use, at or after
\* the cursor, last changed at a USN within [LowUsn, HighUsn] = [0, u]
EnumPending ==
    {f \in DOMAIN vol : Low48(f) >= builder.cursor /\ vol[f].usn <= builder.u}

\* the first k of them in MFT order
EnumBatch(k) ==
    {f \in EnumPending :
        Cardinality({g \in EnumPending : Low48(g) < Low48(f)}) < k}

\* one FSCTL_ENUM_USN_DATA call returns k records: the cursor moves past them
\* and every record is inserted
BuildEnum(k) ==
    /\ builder.pc = "enum"
    /\ k \in 1..Cardinality(EnumPending)
    /\ LET batch == EnumBatch(k)
           last == CHOOSE f \in batch : \A g \in batch : Low48(g) <= Low48(f)
       IN  /\ entries' = [f \in DOMAIN entries \cup batch |->
                             IF f \in batch THEN EntryOf(vol[f]) ELSE entries[f]]
           /\ builder' = [builder EXCEPT
                  !.cursor = Low48(last) + 1,
                  !.seen = [f \in DOMAIN @ \cup batch |->
                               IF f \in batch THEN EntryOf(vol[f]) ELSE @[f]]]
    /\ UNCHANGED <<search_index, tailers, disk>>
    /\ UNCHANGED buildRest
    /\ UNCHANGED owed

\* the call fails with ERROR_HANDLE_EOF: the loop ends
BuildEof ==
    /\ builder.pc = "enum"
    /\ EnumPending = {}
    /\ builder' = [builder EXCEPT !.pc = "rebuild"]
    /\ UNCHANGED <<entries, search_index, tailers, disk>>
    /\ UNCHANGED buildRest
    /\ UNCHANGED owed

\* the call fails with another error: the handle is closed, Err is returned
BuildEnumFail ==
    /\ builder.pc = "enum"
    /\ builder' = [BuildErr EXCEPT !.handles = @ - 1]
    /\ UNCHANGED <<entries, search_index, tailers, disk>>
    /\ UNCHANGED buildRest
    /\ UNCHANGED owed

\* CloseHandle, rebuild_search_index under the write lock, and
\* Ok((entries.len(), NextUsn, UsnJournalID))
BuildRebuild ==
    /\ builder.pc = "rebuild"
    /\ readers = 0
    /\ search_index' = IndexOf(entries)
    /\ builder' = [builder EXCEPT !.pc = "save", !.handles = @ - 1,
                                  !.count = Cardinality(DOMAIN entries)]
    /\ UNCHANGED <<entries, tailers, disk>>
    /\ UNCHANGED buildRest
    /\ owed' = OwedAfterRebuild

\* save_to_disk writes the entries and the anchor
BuildSave ==
    /\ builder.pc = "save"
    /\ disk' = Snapshot(entries, builder.u, builder.j)
    /\ builder' = [builder EXCEPT !.pc = "spawn"]
    /\ UNCHANGED <<entries, search_index, tailers>>
    /\ UNCHANGED buildRest
    /\ UNCHANGED owed

\* save_to_disk fails and the command goes on to the monitor thread
BuildSaveFailSpawn ==
    /\ builder.pc = "save"
    /\ disk' \in {disk, CorruptFile}
    /\ builder' = [builder EXCEPT !.pc = "spawn"]
    /\ UNCHANGED <<entries, search_index, tailers>>
    /\ UNCHANGED buildRest
    /\ UNCHANGED owed

\* save_to_disk fails: File::create failed (the file is as it was) or the
\* write failed after File::create truncated it; Err is returned
BuildSaveFail ==
    /\ builder.pc = "save"
    /\ disk' \in {disk, CorruptFile}
    /\ builder' = BuildErr
    /\ UNCHANGED <<entries, search_index, tailers>>
    /\ UNCHANGED buildRest
    /\ UNCHANGED owed

\* the monitor thread is spawned from the anchor and Ok(count) is returned
BuildSpawn ==
    /\ builder.pc = "spawn"
    /\ tailers' = Append(tailers, NewTailer(builder.u, builder.j))
    /\ builder' = [builder EXCEPT !.pc = "idle", !.builds = @ + 1, !.res = "ok"]
    /\ UNCHANGED <<entries, search_index, disk>>
    /\ UNCHANGED buildRest
    /\ UNCHANGED owed

(***************************************************************************)
(* monitor(start_usn, journal_id, on_change): one tailer thread.           *)
(***************************************************************************)
\* what a tailer leaves alone
tailRest == <<readers, loader, builder, srch, calls, walk, writes, vol,
              journal, disk, ready>>

Tailers == 1..Len(tailers)

FileChange(action, path, is_dir) ==
    [action |-> action, path |-> path, is_dir |-> is_dir]

DeleteClass == {"FILE_DELETE", "RENAME_OLD_NAME"}

CreateClass == {"FILE_CREATE", "RENAME_NEW_NAME"}

\* a delete-class bit and no other
IsDeleteOnly(rec) == rec.reason # {} /\ rec.reason \subseteq DeleteClass

IsDelete(rec) == rec.reason \cap DeleteClass # {}

\* the `else if`: a create-class bit counts only without a delete-class bit
IsCreate(rec) == ~IsDelete(rec) /\ rec.reason \cap CreateClass # {}

\* `offset += record_len`: on to the next record of the buffer
NextRecord(tl) ==
    [tl EXCEPT !.buf = Tail(@), !.done = Append(@, Head(tl.buf)), !.pc = "rec"]

\* get_volume_handle succeeds: the read loop is entered
TailOpen(t) ==
    /\ tailers[t].pc = "open"
    /\ tailers' = [tailers EXCEPT ![t].pc = "read"]
    /\ UNCHANGED <<entries, search_index, sink>>
    /\ UNCHANGED tailRest
    /\ UNCHANGED owed

\* get_volume_handle fails: monitor returns and the thread ends
TailOpenFail(t) ==
    /\ tailers[t].pc = "open"
    /\ tailers' = [tailers EXCEPT ![t].pc = "ended"]
    /\ UNCHANGED <<entries, search_index, sink>>
    /\ UNCHANGED tailRest
    /\ UNCHANGED owed

\* the tailer's state after a read that failed or returned 8 bytes or fewer
AfterIdleReadMoved(tl) == [tl EXCEPT !.pc = "sleep", !.start_usn = 0]

AfterIdleRead(tl) == [tl EXCEPT !.pc = "sleep"]

\* FSCTL_READ_USN_JOURNAL fails, or returns no record (bytes_returned <= 8):
\* the else branch, a sleep of 500 ms
TailReadIdle(t) ==
    /\ tailers[t].pc = "read"
    /\ tailers' = [tailers EXCEPT ![t] = AfterIdleRead(tailers[t])]
    /\ UNCHANGED <<entries, search_index, sink>>
    /\ UNCHANGED tailRest
    /\ UNCHANGED owed

\* the sleep is over
TailWake(t) ==
    /\ tailers[t].pc = "sleep"
    /\ tailers' = [tailers EXCEPT ![t].pc = "read"]
    /\ UNCHANGED <<entries, search_index, sink>>
    /\ UNCHANGED tailRest
    /\ UNCHANGED owed

\* the tailer's state after a read that returned records: StartUsn is the
\* buffer's first 8 bytes, `changes` is empty, the walk starts at offset 8
AfterReadKeepAnchor(tl, next_usn, recs) ==
    [tl EXCEPT !.prefix = next_usn, !.buf = recs, !.done = <<>>,
               !.changes = <<>>, !.pc = "rec"]

AfterRead(tl, next_usn, recs) ==
    [tl EXCEPT !.prefix = next_usn, !.start_usn = next_usn, !.buf = recs,
               !.done = <<>>, !.changes = <<>>, !.pc = "rec"]

\* FSCTL_READ_USN_JOURNAL returns the k records from StartUsn on, preceded
\* by the USN that follows them
TailRead(t, k) ==
    /\ tailers[t].pc = "read"
    /\ tailers[t].journal_id = VolJournalId
    /\ tailers[t].start_usn >= 1
    /\ k \in 1..(Len(journal) + 1 - tailers[t].start_usn)
    /\ LET from == tailers[t].start_usn
       IN  tailers' = [tailers EXCEPT ![t] =
                          AfterRead(tailers[t], from + k,
                                    SubSeq(journal, from, from + k - 1))]
    /\ UNCHANGED <<entries, search_index, sink>>
    /\ UNCHANGED tailRest
    /\ UNCHANGED owed

\* the buffer with the RecordLength of its m-th record damaged
Damaged(recs, m, bad) == [recs EXCEPT ![m].len = bad]

\* FSCTL_READ_USN_JOURNAL returns k records of which the m-th carries a
\* RecordLength that is zero or runs past bytes_returned
TailReadDamaged(t, k, m, bad) ==
    /\ tailers[t].pc = "read"
    /\ tailers[t].journal_id = VolJournalId
    /\ tailers[t].start_usn >= 1
    /\ k \in 1..(Len(journal) + 1 - tailers[t].start_usn)
    /\ m \in 1..k
    /\ LET from == tailers[t].start_usn
       IN  tailers' = [tailers EXCEPT ![t] =
                          AfterRead(tailers[t], from + k,
                                    Damaged(SubSeq(journal, from, from + k - 1), m, bad))]
    /\ UNCHANGED <<entries, search_index, sink>>
    /\ UNCHANGED tailRest
    /\ UNCHANGED owed

\* `record_len == 0 || offset + record_len > bytes_returned`: break, the rest
\* of the buffer is not walked
TailStop(t) ==
    /\ tailers[t].pc = "rec"
    /\ tailers[t].buf # <<>>
    /\ Head(tailers[t].buf).len # "ok"
    /\ tailers' = [tailers EXCEPT ![t].buf = <<>>]
    /\ UNCHANGED <<entries, search_index, sink>>
    /\ UNCHANGED tailRest
    /\ UNCHANGED owed

\* the delete event of a record, if its entry is in the store and the path of
\* the entry's parent reconstructs
DeleteEvents(e, frn) ==
    IF frn \in DOMAIN e /\ reconstruct_path(e, e[frn].parent_frn) # None
    THEN <<FileChange("delete",
                      Append(reconstruct_path(e, e[frn].parent_frn), e[frn].name),
                      e[frn].is_dir)>>
    ELSE <<>>

\* a delete-class record: entries.get(&frn) and the delete event
TailDelGet(t) ==
    /\ tailers[t].pc = "rec"
    /\ tailers[t].buf # <<>>
    /\ Head(tailers[t].buf).len = "ok"
    /\ IsDelete(Head(tailers[t].buf))
    /\ tailers' = [tailers EXCEPT
            ![t].changes = @ \o DeleteEvents(entries, Head(tailers[t].buf).frn),
            ![t].found = Head(tailers[t].buf).frn \in DOMAIN entries,
            ![t].pc = "d_remove"]
    /\ UNCHANGED <<entries, search_index, sink>>
    /\ UNCHANGED tailRest
    /\ UNCHANGED owed

\* self.entries.remove(&frn)
TailDelRemove(t) ==
    /\ tailers[t].pc = "d_remove"
    /\ entries' = StoreRemove(entries, Head(tailers[t].buf).frn)
    /\ tailers' = [tailers EXCEPT ![t].pc = "d_idx"]
    /\ UNCHANGED <<search_index, sink>>
    /\ UNCHANGED tailRest
    /\ UNCHANGED owed

\* search_idx.retain under the write lock
TailDelIdx(t) ==
    /\ tailers[t].pc = "d_idx"
    /\ readers = 0
    /\ search_index' = Retain(search_index, Head(tailers[t].buf).frn)
    /\ tailers' = [tailers EXCEPT ![t] = NextRecord(tailers[t])]
    /\ UNCHANGED <<entries, sink>>
    /\ UNCHANGED tailRest
    /\ owed' = [owed EXCEPT ![Head(tailers[t].buf).frn] = "none"]

\* a create-class record: self.entries.insert(frn, FileEntry {..})
TailCreInsert(t) ==
    /\ tailers[t].pc = "rec"
    /\ tailers[t].buf # <<>>
    /\ Head(tailers[t].buf).len = "ok"
    /\ IsCreate(Head(tailers[t].buf))
    /\ LET rec == Head(tailers[t].buf)
       IN  entries' = StoreInsert(entries, rec.frn,
                                  FileEntry(rec.parent_frn, rec.name, rec.is_dir))
    /\ tailers' = [tailers EXCEPT ![t].pc = "c_idx"]
    /\ UNCHANGED <<search_index, sink>>
    /\ UNCHANGED tailRest
    /\ UNCHANGED owed

\* the Search Index after a create-class record
UpsertNoRetain(idx, frn, name) == Append(idx, [frn |-> frn, name |-> name])

\* search_idx.retain, then search_idx.push, under the write lock
Upsert(idx, frn, name) == Append(Retain(idx, frn), [frn |-> frn, name |-> name])

TailCreIdx(t) ==
    /\ tailers[t].pc = "c_idx"
    /\ readers = 0
    /\ LET rec == Head(tailers[t].buf)
       IN  search_index' = Upsert(search_index, rec.frn, rec.name)
    /\ tailers' = [tailers EXCEPT ![t].pc = "c_path"]
    /\ UNCHANGED <<entries, sink>>
    /\ UNCHANGED tailRest
    /\ owed' = [owed EXCEPT ![Head(tailers[t].buf).frn] = "fresh"]

\* the create event of a record, if the path of its parent reconstructs
CreateEvents(e, rec) ==
    IF reconstruct_path(e, rec.parent_frn) # None
    THEN <<FileChange("create",
                      Append(reconstruct_path(e, rec.parent_frn), rec.name),
                      rec.is_dir)>>
    ELSE <<>>

\* reconstruct_path(&parent_frn) and the create event
TailCrePath(t) ==
    /\ tailers[t].pc = "c_path"
    /\ tailers' = [tailers EXCEPT
            ![t] = NextRecord([tailers[t] EXCEPT
                       !.changes = @ \o CreateEvents(entries, Head(tailers[t].buf))])]
    /\ UNCHANGED <<entries, search_index, sink>>
    /\ UNCHANGED tailRest
    /\ UNCHANGED owed

\* a record with neither class of reason: nothing is done
TailSkip(t) ==
    /\ tailers[t].pc = "rec"
    /\ tailers[t].buf # <<>>
    /\ Head(tailers[t].buf).len = "ok"
    /\ ~IsDelete(Head(tailers[t].buf))
    /\ ~IsCreate(Head(tailers[t].buf))
    /\ tailers' = [tailers EXCEPT ![t] = NextRecord(tailers[t])]
    /\ UNCHANGED <<entries, search_index, sink>>
    /\ UNCHANGED tailRest
    /\ UNCHANGED owed

\* on_change(changes) whatever `changes` holds
NotifyAlways(s, changes) == Append(s, changes)

\* `if !changes.is_empty() { on_change(changes); }`
Notify(s, changes) == IF changes # <<>> THEN Append(s, changes) ELSE s

\* the buffer is walked: on_change(changes) if there are any, and the next read
TailEmit(t) ==
    /\ tailers[t].pc = "rec"
    /\ tailers[t].buf = <<>>
    /\ sink' = Notify(sink, tailers[t].changes)
    /\ tailers' = [tailers EXCEPT ![t].pc = "read", ![t].changes = <<>>]
    /\ UNCHANGED <<entries, search_index>>
    /\ UNCHANGED tailRest
    /\ UNCHANGED owed

(***************************************************************************)
(* The process from its start.                                             *)
(***************************************************************************)
\* the files on the volume when the process starts: each of them absent, or
\* a child of the root named "a" that the journal does not mention
InitVolumes ==
    {v \in UNION {[K \cup {RootFrn} -> {RootRecord, MftRecord(RootFrn, <<"a">>, TRUE, 0),
                                        MftRecord(RootFrn, <<"a">>, FALSE, 0)}]
                  : K \in SUBSET FileFrns} :
        \A f \in DOMAIN v :
            v[f] = IF f = RootFrn THEN RootRecord
                   ELSE MftRecord(RootFrn, <<"a">>, IsDirFrn(f), 0)}

\* the snapshot file is absent, unreadable, or the one an earlier run wrote
\* for this volume
Init ==
    /\ vol \in InitVolumes
    /\ journal = <<>>
    /\ disk \in {NoFile, CorruptFile, Snapshot(StoreOf(vol), 1, VolJournalId)}
    /\ entries = EmptyStore
    /\ search_index = <<>>
    /\ readers = 0
    /\ loader = LoaderAt("start", NoFile, {})
    /\ builder = BuilderAt("idle", 0, "", 0, 0, "none")
    /\ tailers = <<>>
    /\ srch = NoSearch
    /\ calls = <<>>
    /\ walk = NoWalk
    /\ writes = 0
    /\ sink = <<>>
    /\ ready = 0
    /\ owed = NoneOwed

Next ==
    \/ \E frn \in FileFrns, parent \in FileFrns \cup {RootFrn}, name \in FileNames :
          VolCreate(frn, parent, name)
    \/ \E frn \in FileFrns : VolDelete(frn)
    \/ \E frn \in FileFrns, name \in FileNames : VolRename(frn, name)
    \/ \E frn \in FileFrns : VolModify(frn)
    \/ LoadNoFile
    \/ LoadFail
    \/ LoadRead
    \/ LoadClear
    \/ LoadInsert
    \/ LoadRebuild
    \/ LoadSpawn
    \/ LoadReady
    \/ BuildOpen
    \/ BuildOpenFail
    \/ BuildClear
    \/ BuildQuery
    \/ BuildQueryFail
    \/ \E k \in 1..(MaxFiles + 1) : BuildEnum(k)
    \/ BuildEof
    \/ BuildEnumFail
    \/ BuildRebuild
    \/ BuildSave
    \/ BuildSaveFail
    \/ BuildSpawn
    \/ \E t \in Tailers : TailOpen(t)
    \/ \E t \in Tailers : TailOpenFail(t)
    \/ \E t \in Tailers : TailReadIdle(t)
    \/ \E t \in Tailers : TailWake(t)
    \/ \E t \in Tailers, k \in 1..MaxJournal : TailRead(t, k)
    \/ \E t \in Tailers : TailDelGet(t)
    \/ \E t \in Tailers : TailDelRemove(t)
    \/ \E t \in Tailers : TailDelIdx(t)
    \/ \E t \in Tailers : TailCreInsert(t)
    \/ \E t \in Tailers : TailCreIdx(t)
    \/ \E t \in Tailers : TailCrePath(t)
    \/ \E t \in Tailers : TailSkip(t)
    \/ \E t \in Tailers : TailEmit(t)

Spec == Init /\ [][Next]_vars

(***************************************************************************)
(* One tailer after a completed build: the volume changes, reads may fail  *)
(* and buffers may carry a damaged RecordLength.                           *)
(***************************************************************************)
\* the builder once build_mft_index has returned Ok for volume v, queried
\* when the journal was empty
BuiltFrom(v) ==
    [pc |-> "idle", u |-> 1, j |-> VolJournalId,
     cursor |-> 1 + Low48(CHOOSE f \in DOMAIN v : \A g \in DOMAIN v : Low48(g) <= Low48(f)),
     builds |-> 1, res |-> "ok", count |-> Cardinality(DOMAIN v),
     seen |-> StoreOf(v), handles |-> 0, buf |-> <<>>, size |-> 0, done |-> <<>>,
     stalled |-> FALSE, repeats |-> 0]

InitTail ==
    /\ vol \in InitVolumes
    /\ journal = <<>>
    /\ disk = Snapshot(StoreOf(vol), 1, VolJournalId)
    /\ entries = StoreOf(vol)
    /\ search_index = IndexOf(StoreOf(vol))
    /\ readers = 0
    /\ loader = LoaderAt("done", NoFile, {})
    /\ builder = BuiltFrom(vol)
    /\ tailers = <<NewTailer(1, VolJournalId)>>
    /\ srch = NoSearch
    /\ calls = <<>>
    /\ walk = NoWalk
    /\ writes = 0
    /\ sink = <<>>
    /\ ready = 0
    /\ owed = NoneOwed

BadLengths == {"zero", "over"}

NextTail ==
    \/ \E frn \in FileFrns, parent \in FileFrns \cup {RootFrn}, name \in FileNames :
          VolCreate(frn, parent, name)
    \/ \E frn \in FileFrns : VolDelete(frn)
    \/ \E frn \in FileFrns, name \in FileNames : VolRename(frn, name)
    \/ \E frn \in FileFrns : VolModify(frn)
    \/ \E t \in Tailers : TailOpen(t)
    \/ \E t \in Tailers : TailOpenFail(t)
    \/ \E t \in Tailers : TailReadIdle(t)
    \/ \E t \in Tailers : TailWake(t)
    \/ \E t \in Tailers, k \in 1..MaxJournal : TailRead(t, k)
    \/ \E t \in Tailers, k \in 1..MaxJournal, m \in 1..MaxJournal, bad \in BadLengths :
          TailReadDamaged(t, k, m, bad)
    \/ \E t \in Tailers : TailStop(t)
    \/ \E t \in Tailers : TailDelGet(t)
    \/ \E t \in Tailers : TailDelRemove(t)
    \/ \E t \in Tailers : TailDelIdx(t)
    \/ \E t \in Tailers : TailCreInsert(t)
    \/ \E t \in Tailers : TailCreIdx(t)
    \/ \E t \in Tailers : TailCrePath(t)
    \/ \E t \in Tailers : TailSkip(t)
    \/ \E t \in Tailers : TailEmit(t)

SpecTail == InitTail /\ [][NextTail]_vars

(***************************************************************************)
(* search, one Entry Store lookup at a time, while tailers apply records.  *)
(* The read lock on the Search Index is held from the first step to the    *)
(* last; the Entry Store is read as it is at each lookup.                  *)
(***************************************************************************)
\* what a search leaves alone
searchRest == <<entries, search_index, loader, builder, tailers, walk, writes,
                vol, journal, disk, sink, ready, owed>>

\* the walk for the candidate at position pos, if there is one
WalkAt(cand, pos) == WalkInit(IF pos <= Len(cand) THEN cand[pos].frn ELSE 0)

\* search_index.read(), the query lower-cased, and the filter over the index
SearchBegin(query) ==
    /\ srch.pc = "idle"
    /\ readers' = readers + 1
    /\ LET cand == Matching(search_index, query)
       IN  srch' = [pc |-> "scan", q |-> query, cand |-> cand, pos |-> 1,
                    w |-> WalkAt(cand, 1), out |-> <<>>]
    /\ UNCHANGED calls
    /\ UNCHANGED searchRest

\* one entries.get of reconstruct_path for the current candidate; when the
\* walk ends, filter_map keeps the path if there is one and moves on
SearchLookup ==
    /\ srch.pc = "scan"
    /\ srch.pos <= Len(srch.cand)
    /\ Len(srch.out) < SearchLimit
    /\ LET w == WalkStep(entries, srch.w)
       IN  srch' = IF w.st = "run"
                   THEN [srch EXCEPT !.w = w]
                   ELSE [srch EXCEPT
                            !.out = IF w.st = "some" THEN Append(@, WalkResult(w)) ELSE @,
                            !.pos = @ + 1,
                            !.w = WalkAt(srch.cand, srch.pos + 1)]
    /\ UNCHANGED <<readers, calls>>
    /\ UNCHANGED searchRest

\* the paths are returned and the read lock is kept
SearchEndKeepsLock ==
    /\ srch.pc = "scan"
    /\ srch.pos > Len(srch.cand) \/ Len(srch.out) = SearchLimit
    /\ calls' = <<[q |-> srch.q, out |-> srch.out]>>
    /\ srch' = NoSearch
    /\ UNCHANGED readers
    /\ UNCHANGED searchRest

\* the candidates are used up or take(500) is full: collect, the read lock is
\* dropped and the paths are returned
SearchEnd ==
    /\ srch.pc = "scan"
    /\ srch.pos > Len(srch.cand) \/ Len(srch.out) = SearchLimit
    /\ readers' = readers - 1
    /\ calls' = <<[q |-> srch.q, out |-> srch.out]>>
    /\ srch' = NoSearch
    /\ UNCHANGED searchRest

\* a file created under the root as n1 and then renamed to n2, while the
\* tailer of the startup load and the tailer of a build_mft_index call, both
\* started at the beginning of the journal, have yet to read
CreatedThenRenamed(f, n1, n2) ==
    LET made == MftRecord(RootFrn, n1, IsDirFrn(f), 1)
        named == MftRecord(RootFrn, n2, IsDirFrn(f), 3)
        empty == [r \in {RootFrn} |-> RootRecord]
    IN  /\ vol = StoreInsert(empty, f, named)
        /\ journal = <<JournalRecord(f, made, {"FILE_CREATE"}),
                       JournalRecord(f, made, {"RENAME_OLD_NAME"}),
                       JournalRecord(f, named, {"RENAME_NEW_NAME"})>>
        /\ disk = Snapshot(StoreOf(empty), 1, VolJournalId)
        /\ entries = StoreOf(empty)
        /\ search_index = IndexOf(StoreOf(empty))
        /\ loader = LoaderAt("done", disk, {})
        /\ builder = BuiltFrom(empty)
        /\ tailers = <<NewTailer(1, VolJournalId), NewTailer(1, VolJournalId)>>
        /\ ready = 1

InitQuery ==
    /\ \E f \in FileFrns, n1 \in FileNames, n2 \in FileNames :
          n1 # n2 /\ CreatedThenRenamed(f, n1, n2)
    /\ readers = 0
    /\ srch = NoSearch
    /\ calls = <<>>
    /\ walk = NoWalk
    /\ writes = 0
    /\ sink = <<>>
    /\ owed = NoneOwed

NextQuery ==
    \/ \E query \in Queries : SearchBegin(query)
    \/ SearchLookup
    \/ SearchEnd
    \/ \E t \in Tailers : TailOpen(t)
    \/ \E t \in Tailers, k \in 1..Len(journal) : TailRead(t, k)
    \/ \E t \in Tailers : TailDelGet(t)
    \/ \E t \in Tailers : TailDelRemove(t)
    \/ \E t \in Tailers : TailDelIdx(t)
    \/ \E t \in Tailers : TailCreInsert(t)
    \/ \E t \in Tailers : TailCreIdx(t)
    \/ \E t \in Tailers : TailCrePath(t)
    \/ \E t \in Tailers : TailEmit(t)

SpecQuery == InitQuery /\ [][NextQuery]_vars

(***************************************************************************)
(* Claims about the running process.                                       *)
(***************************************************************************)
\* the tailers that have not returned
Running == {t \in Tailers : tailers[t].pc # "ended"}

\* tailer t is between two reads: every record of its last buffer is applied
BetweenReads(t) == tailers[t].pc \in {"read", "sleep"}

\* tailer t is in the middle of applying a journal record
MidRecord(t) == tailers[t].pc \in {"d_remove", "d_idx", "c_idx", "c_path"}

\* no enumeration, rebuild or load is in progress and no tailer is in the
\* middle of a record
ConsistencyPoint ==
    /\ builder.pc = "idle"
    /\ loader.pc \in {"start", "done"}
    /\ \A t \in Tailers : ~MidRecord(t)

\* build_mft_index has returned Ok, nothing was loaded, and the one tailer,
\* started from the build's anchor, has applied every record of the journal
BuildCaughtUp ==
    /\ builder.pc = "idle"
    /\ builder.res = "ok"
    /\ loader.pc = "done"
    /\ Len(tailers) = 1
    /\ tailers[1].from = builder.u
    /\ tailers[1].journal_id = builder.j
    /\ BetweenReads(1)
    /\ tailers[1].start_usn = NextUsn

\* C1: once a rebuild has completed with anchor (u, j) and the tailer started
\* from (u, j) has applied every journal record with USN >= u, the Entry
\* Store holds exactly the named files and directories live on the volume
C1_CleanCut == BuildCaughtUp => DOMAIN entries = DOMAIN vol

\* C2: at every consistency point, also after a build_index that failed, the
\* FRNs of the Search Index, counted with multiplicity, are the keys of the
\* Entry Store
C2_IndexMatchesStore ==
    ConsistencyPoint =>
        /\ IdxFrns(search_index) = DOMAIN entries
        /\ \A f \in DOMAIN entries : CountFrn(search_index, f) = 1

\* C3: at most one tailer is running at any time
C3_AtMostOneTailer == Cardinality(Running) <= 1

\* C9: from the moment a tailer has applied a create-class record for FRN f
\* until a delete-class record for f is applied, the Search Index holds
\* exactly one pair with FRN f
C9_ExactlyOnePair ==
    \A f \in FileFrns : owed[f] # "none" => CountFrn(search_index, f) = 1

\* C9, with the rebuilds: from the moment a tailer has applied a create-class
\* record for FRN f until a delete-class record for f is applied or the
\* Search Index is rebuilt, the Search Index holds exactly one pair with
\* FRN f; and it never holds two
C9_ExactlyOnePairUntilRebuild ==
    /\ \A f \in FileFrns : owed[f] = "fresh" => CountFrn(search_index, f) = 1
    /\ \A f \in FileFrns : CountFrn(search_index, f) <= 1

\* the tailer of a completed build has applied the FILE_CREATE record of a
\* file that the build had already enumerated, indexed and saved
C9_Witness ==
    /\ builder.pc = "idle"
    /\ builder.res = "ok"
    /\ loader.pc = "done"
    /\ Len(tailers) = 1
    /\ tailers[1].pc = "c_path"
    /\ LET rec == Head(tailers[1].buf)
       IN  /\ "FILE_CREATE" \in rec.reason
           /\ rec.frn \in DOMAIN disk.entries
           /\ owed[rec.frn] = "fresh"
           /\ CountFrn(search_index, rec.frn) = 1

(***************************************************************************)
(* Claims about one tailer after a completed build.                        *)
(***************************************************************************)
\* C7: whenever a buffer with records has been returned, the StartUsn of the
\* tailer's next read is the 8-byte prefix of that buffer, from before the
\* first record is decoded on, also when the walk over the records stops
\* early or acts on none of them; before the first buffer it is the USN the
\* tailer was started from; and the journal id of its reads is the one it was
\* started with
C7_AnchorIsBufferPrefix ==
    \A t \in Tailers :
        /\ tailers[t].prefix # 0 => tailers[t].start_usn = tailers[t].prefix
        /\ tailers[t].prefix = 0 => tailers[t].start_usn = tailers[t].from
        /\ tailers[t].journal_id = builder.j

\* the tailer is at the end of the journal after a walk that stopped early:
\* a live file whose create record is in the journal is not in the store
C7_Witness ==
    \E t \in Tailers :
        /\ tailers[t].pc = "read"
        /\ tailers[t].prefix = NextUsn
        /\ tailers[t].start_usn = NextUsn
        /\ \E i \in 1..Len(journal) :
              /\ "FILE_CREATE" \in journal[i].reason
              /\ journal[i].frn \in DOMAIN vol
              /\ journal[i].frn \notin DOMAIN entries

\* the store, the index, the anchor and the event sink are as the rebuild
\* left them
AsRebuilt(t) ==
    /\ entries = disk.entries
    /\ search_index = IndexOf(disk.entries)
    /\ tailers[t].start_usn = disk.next_usn
    /\ tailers[t].journal_id = disk.journal_id
    /\ sink = <<>>

\* tailer t makes a read that fails or returns 8 bytes or fewer
IdleRead(t) == tailers[t].pc = "read" /\ tailers'[t].pc = "sleep"

\* C8: a read that fails or returns no record changes neither the Entry
\* Store, nor the Search Index, nor the tailer's anchor, and notifies nobody;
\* so after a rebuild with anchor (u, j), as long as no read of the tailer
\* has returned a record, all of them are as the rebuild left them
C8_IdleReadsChangeNothing ==
    /\ [](\A t \in Tailers : tailers[t].prefix = 0 => AsRebuilt(t))
    /\ [][\A t \in Tailers :
            IdleRead(t) =>
                /\ entries' = entries
                /\ search_index' = search_index
                /\ tailers'[t].start_usn = tailers[t].start_usn
                /\ tailers'[t].journal_id = tailers[t].journal_id
                /\ sink' = sink]_vars

\* the tailer sleeps after a read that returned nothing although the volume
\* has changed since the rebuild
C8_Witness ==
    \E t \in Tailers :
        /\ tailers[t].pc = "sleep"
        /\ tailers[t].prefix = 0
        /\ journal # <<>>
        /\ AsRebuilt(t)

(***************************************************************************)
(* Claims about search while tailers apply records.                        *)
(***************************************************************************)
\* C4: the last component of every path that search(q) returns contains q,
\* letter case aside, whatever the tailers do during the query
C4_BasenameContainsQuery ==
    \A i \in 1..Len(calls) :
        \A k \in 1..Len(calls[i].out) :
            NameMatches(Basename(calls[i].out[k]), calls[i].q)

(***************************************************************************)
(* save_to_disk and load_from_disk as calls in sequence.  The file is the  *)
(* bincode stream of PersistentData: the number of entries, then for each  *)
(* entry the key, parent_frn, the length of the name, its characters and   *)
(* the is_dir byte, then next_usn and journal_id.                          *)
(***************************************************************************)
\* a bool is one byte, 0 or 1
EncodeBool(b) == IF b THEN 1 ELSE 0

\* a String is its length followed by its characters
EncodeString(str) == <<Len(str)>> \o str

EncodeEntry(frn, ent) ==
    <<frn, ent.parent_frn>> \o EncodeString(ent.name) \o <<EncodeBool(ent.is_dir)>>

\* `self.entries.iter().map(|r| (*r.key(), r.value().clone())).collect()`
PersistentData(e, u, j) ==
    [entries |-> [i \in 1..Cardinality(DOMAIN e) |->
                     [key |-> SeqOfKeys(DOMAIN e)[i], value |-> e[SeqOfKeys(DOMAIN e)[i]]]],
     next_usn |-> u, journal_id |-> j]

RECURSIVE EncodePairs(_)
EncodePairs(pairs) ==
    IF pairs = <<>> THEN <<>>
    ELSE EncodeEntry(Head(pairs).key, Head(pairs).value) \o EncodePairs(Tail(pairs))

\* bincode::serialize_into
Serialize(pd) ==
    <<Len(pd.entries)>> \o EncodePairs(pd.entries) \o <<pd.next_usn, pd.journal_id>>

\* the entry that starts at position pos of the stream, and the position
\* after it
DecodeEntry(bytes, pos) ==
    LET len == bytes[pos + 2]
    IN  [key |-> bytes[pos],
         value |-> FileEntry(bytes[pos + 1], SubSeq(bytes, pos + 3, pos + 2 + len),
                             bytes[pos + 3 + len] = 1),
         next |-> pos + 4 + len]

RECURSIVE DecodePairs(_, _, _)
DecodePairs(bytes, pos, n) ==
    IF n = 0 THEN [pairs |-> <<>>, next |-> pos]
    ELSE LET first == DecodeEntry(bytes, pos)
             rest == DecodePairs(bytes, first.next, n - 1)
         IN  [pairs |-> <<[key |-> first.key, value |-> first.value]>> \o rest.pairs,
              next |-> rest.next]

\* bincode::deserialize_from
Deserialize(bytes) ==
    LET body == DecodePairs(bytes, 2, bytes[1])
    IN  [entries |-> body.pairs, next_usn |-> bytes[body.next],
         journal_id |-> bytes[body.next + 1]]

\* the Entry Store after the loop `for (k, v) in persistent_data.entries`
RECURSIVE InsertAll(_, _)
InsertAll(e, pairs) ==
    IF pairs = <<>> THEN e
    ELSE InsertAll(StoreInsert(e, Head(pairs).key, Head(pairs).value), Tail(pairs))

LoadedOverOld(old, pairs) == InsertAll(old, pairs)

\* `self.entries.clear()` and the loop
Loaded(old, pairs) == InsertAll(EmptyStore, pairs)

FileOf(bytes) == [kind |-> "bytes", data |-> bytes]

Anchors == {[next_usn |-> u, journal_id |-> j] : u \in {0, 1, 7}, j \in {"J1", "J2"}}

InitDisk ==
    /\ ProcIdle
    /\ calls = <<>>
    /\ walk = NoWalk
    /\ writes = 0
    /\ entries \in SmallStores
    /\ search_index = IndexOf(entries)

\* save_to_disk(path, next_usn, journal_id) returns Ok
DiskSave(a) ==
    /\ calls = <<>>
    /\ disk' = FileOf(Serialize(PersistentData(entries, a.next_usn, a.journal_id)))
    /\ calls' = <<[op |-> "save", store |-> entries, anchor |-> a]>>
    /\ UNCHANGED <<entries, search_index, walk, writes, readers, loader, builder,
                   tailers, srch, vol, journal, sink, ready, owed>>

\* the index that will load the file holds something else: another process
\* run, or changes since the save
DiskOther(e, old) ==
    /\ Len(calls) = 1
    /\ entries' = e
    /\ search_index' = IndexOf(old)
    /\ calls' = Append(calls, [op |-> "other"])
    /\ UNCHANGED <<disk, walk, writes, readers, loader, builder, tailers, srch, vol,
                   journal, sink, ready, owed>>

\* load_from_disk(path) returns Ok((next_usn, journal_id))
DiskLoad ==
    /\ calls # <<>>
    /\ calls[Len(calls)].op # "load"
    /\ LET pd == Deserialize(disk.data)
       IN  /\ entries' = Loaded(entries, pd.entries)
           /\ search_index' = IndexOf(entries')
           /\ calls' = Append(calls, [op |-> "load",
                                      ret |-> [next_usn |-> pd.next_usn,
                                               journal_id |-> pd.journal_id]])
    /\ UNCHANGED <<disk, walk, writes, readers, loader, builder, tailers, srch, vol,
                   journal, sink, ready, owed>>

NextDisk ==
    \/ \E a \in Anchors : DiskSave(a)
    \/ \E e \in SmallOldStores, old \in SmallOldStores : DiskOther(e, old)
    \/ DiskLoad

SpecDisk == InitDisk /\ [][NextDisk]_vars

\* C11: after save_to_disk of Entry Store S with anchor (next_usn,
\* journal_id) and load_from_disk of that file into an index, whatever the
\* index held before, the Entry Store equals S, load returns (next_usn,
\* journal_id), and the Search Index holds exactly one pair per entry of S,
\* with the entry's name
C11_SnapshotRoundTrip ==
    (calls # <<>> /\ calls[Len(calls)].op = "load") =>
        /\ entries = calls[1].store
        /\ calls[Len(calls)].ret = calls[1].anchor
        /\ Len(search_index) = Cardinality(DOMAIN entries)
        /\ \A f \in DOMAIN entries :
              /\ CountFrn(search_index, f) = 1
              /\ \A i \in 1..Len(search_index) :
                    search_index[i].frn = f => search_index[i].name = entries[f].name

\* a store of three entries was saved and loaded over another store and a
\* stale index
C11_Witness ==
    /\ Len(calls) = 3
    /\ calls[3].op = "load"
    /\ Cardinality(DOMAIN calls[1].store) = 3
    /\ \E f \in DOMAIN calls[1].store : calls[1].store[f].name = <<"A", "b">>
    /\ entries = calls[1].store
    /\ calls[3].ret.next_usn = 7

(***************************************************************************)
(* The startup load of a snapshot an earlier run wrote: its anchor may be  *)
(* valid for the volume, carry the id of a journal that has been deleted   *)
(* and recreated since, or a USN older than the oldest record the journal  *)
(* retains (the journal's records start at USN 1).                         *)
(***************************************************************************)
OldJournalId == "J0"

\* FSCTL_READ_USN_JOURNAL accepts the tailer's StartUsn and UsnJournalID
AnchorValid(u, j) == j = VolJournalId /\ u >= 1

InitStale ==
    /\ vol \in InitVolumes
    /\ journal = <<>>
    /\ disk \in {Snapshot(StoreOf(vol), 1, VolJournalId),
                 Snapshot(StoreOf(vol), 1, OldJournalId),
                 Snapshot(StoreOf(vol), 0, VolJournalId)}
    /\ entries = EmptyStore
    /\ search_index = <<>>
    /\ readers = 0
    /\ loader = LoaderAt("start", NoFile, {})
    /\ builder = BuilderAt("idle", 0, "", 0, 0, "none")
    /\ tailers = <<>>
    /\ srch = NoSearch
    /\ calls = <<>>
    /\ walk = NoWalk
    /\ writes = 0
    /\ sink = <<>>
    /\ ready = 0
    /\ owed = NoneOwed

NextStale ==
    \/ \E frn \in FileFrns, parent \in FileFrns \cup {RootFrn}, name \in FileNames :
          VolCreate(frn, parent, name)
    \/ \E frn \in FileFrns : VolDelete(frn)
    \/ \E frn \in FileFrns, name \in FileNames : VolRename(frn, name)
    \/ \E frn \in FileFrns : VolModify(frn)
    \/ LoadRead
    \/ LoadClear
    \/ LoadInsert
    \/ LoadRebuild
    \/ LoadSpawn
    \/ LoadReady
    \/ \E t \in Tailers : TailOpen(t)
    \/ \E t \in Tailers : TailOpenFail(t)
    \/ \E t \in Tailers : TailReadIdle(t)
    \/ \E t \in Tailers : TailWake(t)
    \/ \E t \in Tailers, k \in 1..MaxJournal : TailRead(t, k)
    \/ \E t \in Tailers : TailDelGet(t)
    \/ \E t \in Tailers : TailDelRemove(t)
    \/ \E t \in Tailers : TailDelIdx(t)
    \/ \E t \in Tailers : TailCreInsert(t)
    \/ \E t \in Tailers : TailCreIdx(t)
    \/ \E t \in Tailers : TailCrePath(t)
    \/ \E t \in Tailers : TailSkip(t)
    \/ \E t \in Tailers : TailEmit(t)

SpecStale == InitStale /\ [][NextStale]_vars

\* the anchor of the loaded snapshot is not valid for the volume
StaleLoaded ==
    /\ loader.data.kind = "ok"
    /\ ~AnchorValid(loader.data.next_usn, loader.data.journal_id)

\* C12: when the anchor loaded at startup is not valid for the volume (other
\* journal id, or a USN older than the journal retains), the index is not
\* reported ready while a tailer keeps reading from that anchor
C12_StaleAnchorSurfaced ==
    StaleLoaded =>
        ~(/\ ready > 0
          /\ \E t \in Running :
                ~AnchorValid(tailers[t].start_usn, tailers[t].journal_id))

(***************************************************************************)
(* Claims about the life of a tailer.                                      *)
(***************************************************************************)
\* C13: a tailer never dies: once monitor() has been called it does not
\* return, whatever fails (opening the volume, reading the journal)
C13_TailerNeverDies == \A t \in Tailers : tailers[t].pc # "ended"

(***************************************************************************)
(* Claims about the startup thread.                                        *)
(***************************************************************************)
\* the startup thread has read and deserialized a snapshot file
LoadedOk == loader.data.kind = "ok"

\* C14: index-ready is emitted at most once; it has been emitted exactly
\* when the startup thread is through with a successful load, and then a
\* tailer has been started from the loaded anchor; when the snapshot file is
\* missing or does not load, it is never emitted and the startup thread
\* starts no tailer; build_mft_index emits none
C14_ReadyOnceAfterLoad ==
    /\ ready <= 1
    /\ ready = 1 <=> (loader.pc = "done" /\ LoadedOk)
    /\ ready = 1 =>
          /\ \E t \in Tailers :
                /\ tailers[t].from = loader.data.next_usn
                /\ tailers[t].journal_id = loader.data.journal_id
          /\ loader.todo = {}
          /\ DOMAIN loader.data.entries # {}
    /\ (loader.pc = "done" /\ ~LoadedOk) => Len(tailers) <= builder.builds
    /\ Len(tailers) <= builder.builds + 1

\* the load succeeded, index-ready was emitted once, and a build_mft_index
\* call has completed as well
C14_Witness ==
    /\ ready = 1
    /\ loader.pc = "done"
    /\ builder.pc = "idle"
    /\ builder.res = "ok"
    /\ Len(tailers) = 2

(***************************************************************************)
(* Claims about build_index.                                               *)
(***************************************************************************)
\* build_index returns Ok((count, NextUsn, UsnJournalID))
BuildReturnsOk == builder.pc = "rebuild" /\ builder'.pc = "save"

\* C15: when build_index returns Ok, the Entry Store holds exactly the named
\* records its enumeration delivered, and the count it returns is their
\* number: nothing from before the call, from a startup load running
\* meanwhile, or inserted by a running tailer is left in it
C15_RebuildFromScratch ==
    [][BuildReturnsOk =>
          /\ entries' = builder'.seen
          /\ builder'.count = Cardinality(DOMAIN builder'.seen)]_vars

(***************************************************************************)
(* Claims about the events of a walked buffer.                             *)
(***************************************************************************)
\* the last two records tailer t has walked are the rename-old and the
\* rename-new record of one file, and the rename-old record found the file
\* in the Entry Store
RenameWalked(t) ==
    LET n == Len(tailers[t].done)
    IN  /\ tailers[t].pc = "rec"
        /\ n >= 2
        /\ tailers[t].done[n - 1].reason = {"RENAME_OLD_NAME"}
        /\ tailers[t].done[n].reason = {"RENAME_NEW_NAME"}
        /\ tailers[t].done[n - 1].frn = tailers[t].done[n].frn
        /\ tailers[t].found

\* C16: when a tailer has walked the rename-old and the rename-new record of
\* a file that was in the store, its pending notification ends with the
\* delete event of the old name followed by the create event of the new
\* name, and the Entry Store holds the file under the new name
C16_RenameIsDeleteThenCreate ==
    \A t \in Tailers :
        RenameWalked(t) =>
            LET n == Len(tailers[t].done)
                old == tailers[t].done[n - 1]
                new == tailers[t].done[n]
                m == Len(tailers[t].changes)
            IN  /\ m >= 2
                /\ tailers[t].changes[m - 1].action = "delete"
                /\ Basename(tailers[t].changes[m - 1].path) = old.name
                /\ tailers[t].changes[m - 1].is_dir = old.is_dir
                /\ tailers[t].changes[m].action = "create"
                /\ Basename(tailers[t].changes[m].path) = new.name
                /\ tailers[t].changes[m].is_dir = new.is_dir
                /\ new.frn \in DOMAIN entries
                /\ entries[new.frn] = FileEntry(new.parent_frn, new.name, new.is_dir)

(***************************************************************************)
(* Records as the volume hands them over: FileNameLength is a count of     *)
(* bytes, and the name is what the decoder makes of it.                    *)
(***************************************************************************)
\* the UTF-16 units at FileNameOffset
RawUnits == <<"a">>

\* FileNameLength, in bytes
RawLens == 0..(2 * Len(RawUnits))

RawReasons ==
    {{"FILE_DELETE"}, {"RENAME_OLD_NAME"}, {"FILE_CREATE"}, {"DATA_EXTEND"},
     {"FILE_CREATE", "FILE_DELETE"}}

\* the parents a record may name: 0, the root, a directory, the file itself
RawParents(f) == {p \in SmallParents : p = f \/ p \notin WriteFrns \/ IsDirFrn(p)}

RawRecords ==
    UNION {{[frn |-> f, parent_frn |-> p, units |-> RawUnits, name_len |-> l,
             is_dir |-> IsDirFrn(f), reason |-> r] :
               p \in RawParents(f), l \in RawLens, r \in RawReasons}
           : f \in WriteFrns}

\* `if name_len > 0`
HasName(raw) == raw.name_len > 0

\* from_raw_parts(name_ptr, name_len / 2), then String::from_utf16_lossy
DecodeName(raw) == Take(raw.units, raw.name_len \div 2)

\* the record with its decoded name
Decoded(raw) ==
    [frn |-> raw.frn, parent_frn |-> raw.parent_frn, name |-> DecodeName(raw),
     is_dir |-> raw.is_dir, reason |-> raw.reason, len |-> "ok"]

\* one record of the enumeration loop of build_index
EnumInsert(e, raw) ==
    IF HasName(raw)
    THEN StoreInsert(e, raw.frn, EntryOf(Decoded(raw)))
    ELSE e

\* one record of the buffer walk of monitor: the store, the index and the
\* events after it
ApplyRecord(e, idx, raw) ==
    LET rec == Decoded(raw)
        put == StoreInsert(e, rec.frn, EntryOf(rec))
    IN  IF ~HasName(raw) THEN [entries |-> e, idx |-> idx, events |-> <<>>]
        ELSE IF IsDelete(rec)
             THEN [entries |-> StoreRemove(e, rec.frn),
                   idx |-> Retain(idx, rec.frn),
                   events |-> DeleteEvents(e, rec.frn)]
        ELSE IF IsCreate(rec)
             THEN [entries |-> put,
                   idx |-> Upsert(idx, rec.frn, rec.name),
                   events |-> CreateEvents(put, rec)]
        ELSE [entries |-> e, idx |-> idx, events |-> <<>>]

\* parent p of file f is one the store can account for: resident, the file
\* itself, 0, or record index 5
ParentKnown(e, f, p) ==
    p \in DOMAIN e \/ p = f \/ p = 0 \/ Low48(p) = RootIndex

Children(e, f) == {c \in DOMAIN e \ {f} : e[c].parent_frn = f}

\* what the file system writes to the journal, given the files in store e: a
\* file is created in a directory that exists, and a directory is deleted
\* only when it is empty (it is renamed with its children in place)
Journalled(e, raw) ==
    /\ IsCreate(Decoded(raw)) => ParentKnown(e, raw.frn, raw.parent_frn)
    /\ "FILE_DELETE" \in raw.reason => Children(e, raw.frn) = {}

\* a tailer runs alone on an index that a build or a load has filled, or
\* that a build has just cleared
InitRecords ==
    /\ ProcIdle
    /\ calls = <<>>
    /\ walk = NoWalk
    /\ writes = 0
    /\ entries \in {EmptyStore, [f \in {RootFrn} |-> RootEntry]}
    /\ search_index = IndexOf(entries)

\* build_index over a volume whose enumeration delivers the root and `raw`
RecordsBuild(raw) ==
    /\ calls = <<>>
    /\ ParentKnown([f \in {RootFrn} |-> RootEntry], raw.frn, raw.parent_frn)
    /\ entries' = EnumInsert(StoreInsert(EmptyStore, RootFrn, RootEntry), raw)
    /\ search_index' = IndexOf(entries')
    /\ calls' = <<[op |-> "build", rec |-> raw]>>
    /\ UNCHANGED <<disk, walk, writes, readers, loader, builder, tailers, srch, vol,
                   journal, sink, ready, owed>>

\* the tailer walks a buffer of one record and notifies
RecordsTail(raw) ==
    /\ Journalled(entries, raw)
    /\ \E post \in {ApplyRecord(entries, search_index, raw)} :
           /\ entries' = post.entries
           /\ search_index' = post.idx
           /\ calls' = <<[op |-> "tail", rec |-> raw,
                          had |-> IF raw.frn \in DOMAIN entries
                                  THEN <<entries[raw.frn]>> ELSE <<>>,
                          path |-> reconstruct_path(entries, raw.frn),
                          kept |-> post.entries = entries /\ post.idx = search_index,
                          events |-> post.events]>>
    /\ UNCHANGED <<disk, walk, writes, readers, loader, builder, tailers, srch, vol,
                   journal, sink, ready, owed>>

NextRecords ==
    \/ \E raw \in RawRecords : RecordsBuild(raw)
    \/ \E raw \in RawRecords : RecordsTail(raw)

SpecRecords == InitRecords /\ [][NextRecords]_vars

\* C17: no entry of the Entry Store has an empty name, whatever
\* FileNameLength the records decoded by the enumeration and by the tailer
\* carry
C17_NoEmptyName == \A f \in DOMAIN entries : entries[f].name # <<>>


\* C18: after each applied journal record and each completed enumeration,
\* the parent_frn of every resident entry is resident, the entry's own FRN,
\* 0, or has low 48 bits equal to 5
C18_ParentsAccountedFor ==
    \A f \in DOMAIN entries : ParentKnown(entries, f, entries[f].parent_frn)

\* the tailer has just applied a delete-class record with a non-empty name
DeleteApplied ==
    /\ calls # <<>>
    /\ calls[1].op = "tail"
    /\ IsDelete(Decoded(calls[1].rec))
    /\ DecodeName(calls[1].rec) # <<>>

\* C19: a delete-class record with a non-empty name whose FRN is in the
\* store makes the tailer emit exactly one delete event, with the entry's
\* name at the end of its path and the entry's is_dir, and leaves the FRN in
\* neither the store nor the index; when the FRN is not in the store there
\* is no event and store and index are unchanged
C19_DeleteEventForResident ==
    DeleteApplied =>
        IF calls[1].had # <<>>
        THEN /\ Len(calls[1].events) = 1
             /\ calls[1].events[1].action = "delete"
             /\ Basename(calls[1].events[1].path) = calls[1].had[1].name
             /\ calls[1].events[1].is_dir = calls[1].had[1].is_dir
             /\ calls[1].rec.frn \notin DOMAIN entries
             /\ calls[1].rec.frn \notin IdxFrns(search_index)
        ELSE /\ calls[1].events = <<>>
             /\ calls[1].kept

\* the tailer has just applied a create-class record with a non-empty name,
\* and no entry of the store has an empty name
CreateApplied ==
    /\ calls # <<>>
    /\ calls[1].op = "tail"
    /\ IsCreate(Decoded(calls[1].rec))
    /\ DecodeName(calls[1].rec) # <<>>
    /\ \A f \in DOMAIN entries : entries[f].name # <<>>

\* C20: for a create-class record applied for file f the tailer emits
\* exactly one create event, and its path is the path search returns for f
C20_CreatePathIsSearchPath ==
    CreateApplied =>
        /\ Len(calls[1].events) = 1
        /\ calls[1].events[1].action = "create"
        /\ calls[1].events[1].path = reconstruct_path(entries, calls[1].rec.frn)


(***************************************************************************)
(* Claims about notifications.                                             *)
(***************************************************************************)
IsPrefix(s, t) == Len(s) <= Len(t) /\ SubSeq(t, 1, Len(s)) = s

\* tailer t leaves the walk of its buffer in this step
BufferWalked(t) ==
    /\ tailers[t].pc = "rec"
    /\ tailers[t].buf = <<>>
    /\ tailers'[t].pc = "read"

\* tailer t is walking its buffer before and after this step
Walking(t) ==
    /\ tailers[t].pc \in {"rec", "d_remove", "d_idx", "c_idx", "c_path"}
    /\ tailers'[t].pc \in {"rec", "d_remove", "d_idx", "c_idx", "c_path"}

\* C21: the events of one buffer are collected in the order of its records
\* and delivered as one notification when the buffer is walked, before the
\* tailer reads its next buffer; a buffer without events delivers nothing,
\* and nothing else delivers a notification
C21_OneNotificationPerBuffer ==
    [][/\ \A t \in Tailers :
              /\ BufferWalked(t) =>
                    /\ tailers[t].changes # <<>> =>
                          sink' = Append(sink, tailers[t].changes)
                    /\ tailers[t].changes = <<>> => sink' = sink
              /\ Walking(t) =>
                    /\ IsPrefix(tailers[t].changes, tailers'[t].changes)
                    /\ Len(tailers'[t].changes) <= Len(tailers'[t].done) + 1
       /\ sink' # sink => \E t \in Tailers : BufferWalked(t)]_vars

\* a notification of two events, a delete and then a create, was delivered
C21_Witness ==
    \E i \in 1..Len(sink) :
        /\ Len(sink[i]) = 2
        /\ sink[i][1].action = "delete"
        /\ sink[i][2].action = "create"

(***************************************************************************)
(* The enumeration loop of build_index, call by call and record by record, *)
(* against a device that may return damaged record lengths and a cursor    *)
(* that does not move.                                                     *)
(***************************************************************************)
EnumVolumes ==
    {v \in UNION {[K \cup {RootFrn} -> {RootRecord, MftRecord(RootFrn, <<"a">>, TRUE, 0),
                                        MftRecord(RootFrn, <<"a">>, FALSE, 0)}]
                  : K \in SUBSET WriteFrns} :
        \A f \in DOMAIN v :
            v[f] = IF f = RootFrn THEN RootRecord
                   ELSE MftRecord(RootFrn, <<"a">>, IsDirFrn(f), 0)}

\* build_index has opened the volume, cleared the store and queried the
\* journal
InitEnum ==
    /\ vol \in EnumVolumes
    /\ journal = <<>>
    /\ disk = NoFile
    /\ entries = EmptyStore
    /\ search_index = <<>>
    /\ readers = 0
    /\ loader = LoaderAt("done", NoFile, {})
    /\ builder = [BuilderAt("enum", 1, VolJournalId, 0, 0, "none") EXCEPT !.handles = 1]
    /\ tailers = <<>>
    /\ srch = NoSearch
    /\ calls = <<>>
    /\ walk = NoWalk
    /\ writes = 0
    /\ sink = <<>>
    /\ ready = 0
    /\ owed = NoneOwed

enumRest == <<search_index, tailers, disk, readers, loader, srch, calls, walk,
              writes, vol, journal, sink, ready, owed>>

\* the records of a set of FRNs in MFT order, as the buffer holds them
RECURSIVE EnumRecords(_)
EnumRecords(S) ==
    IF S = {} THEN <<>>
    ELSE LET f == CHOOSE x \in S : \A y \in S : Low48(x) <= Low48(y)
         IN  <<[frn |-> f, len |-> "ok"]>> \o EnumRecords(S \ {f})

EnumLengths == {"ok", "zero", "over"}

\* FSCTL_ENUM_USN_DATA returns k records, the m-th with RecordLength `len`,
\* preceded by the next StartFileReferenceNumber: past the records, or, when
\* `stall`, the one the call was made with
EnumCall(k, m, len, stall) ==
    /\ builder.pc = "enum"
    /\ builder.repeats < MaxSpin
    /\ k \in 1..Cardinality(EnumPending)
    /\ m \in 1..k
    /\ LET batch == EnumBatch(k)
           last == CHOOSE f \in batch : \A g \in batch : Low48(g) <= Low48(f)
       IN  builder' = [builder EXCEPT
              !.pc = "walk",
              !.cursor = IF stall THEN @ ELSE Low48(last) + 1,
              !.buf = [EnumRecords(batch) EXCEPT ![m].len = len],
              !.size = k,
              !.done = <<>>,
              !.repeats = IF builder.stalled THEN @ + 1 ELSE 0,
              !.stalled = stall]
    /\ UNCHANGED entries
    /\ UNCHANGED enumRest

\* one turn of `while offset < bytes_returned`: the record is inserted and
\* `offset += record_len`
EnumWalk ==
    /\ builder.pc = "walk"
    /\ builder.buf # <<>>
    /\ Head(builder.buf).len # "over"
    /\ Len(builder.done) < builder.size + MaxSpin
    /\ LET rec == Head(builder.buf)
       IN  /\ entries' = StoreInsert(entries, rec.frn, EntryOf(vol[rec.frn]))
           /\ builder' = [builder EXCEPT
                  !.buf = IF rec.len = "zero" THEN @ ELSE Tail(@),
                  !.done = Append(@, rec),
                  !.seen = StoreInsert(@, rec.frn, EntryOf(vol[rec.frn]))]
    /\ UNCHANGED enumRest

\* `if offset + record_len > bytes_returned { break; }`
EnumWalkBreak ==
    /\ builder.pc = "walk"
    /\ builder.buf # <<>>
    /\ Head(builder.buf).len = "over"
    /\ builder' = [builder EXCEPT !.pc = "enum", !.buf = <<>>]
    /\ UNCHANGED entries
    /\ UNCHANGED enumRest

\* `offset < bytes_returned` is false: the next call
EnumWalkEnd ==
    /\ builder.pc = "walk"
    /\ builder.buf = <<>>
    /\ builder' = [builder EXCEPT !.pc = "enum"]
    /\ UNCHANGED entries
    /\ UNCHANGED enumRest

\* the call fails with ERROR_HANDLE_EOF: break
EnumEof ==
    /\ builder.pc = "enum"
    /\ EnumPending = {}
    /\ builder' = [builder EXCEPT !.pc = "rebuild"]
    /\ UNCHANGED entries
    /\ UNCHANGED enumRest

\* the call returns 0 bytes, or fewer than 8: break
EnumShort ==
    /\ builder.pc = "enum"
    /\ builder' = [builder EXCEPT !.pc = "rebuild"]
    /\ UNCHANGED entries
    /\ UNCHANGED enumRest

\* the call fails with another error: CloseHandle and Err
EnumFail ==
    /\ builder.pc = "enum"
    /\ builder' = [BuildErr EXCEPT !.handles = @ - 1]
    /\ UNCHANGED entries
    /\ UNCHANGED enumRest

NextEnum ==
    \/ \E k \in 1..Cardinality(SmallFrns), m \in 1..Cardinality(SmallFrns), len \in EnumLengths, stall \in BOOLEAN :
          EnumCall(k, m, len, stall)
    \/ EnumWalk
    \/ EnumWalkBreak
    \/ EnumWalkEnd
    \/ EnumEof
    \/ EnumShort
    \/ EnumFail

SpecEnum == InitEnum /\ [][NextEnum]_vars

\* C22: the walk of a buffer by the enumeration stops at the first record
\* whose RecordLength is 0 or runs past the bytes returned: no such record
\* is decoded, and no buffer is walked for more turns than it has records
C22_WalkStopsAtBadLength ==
    /\ \A i \in 1..Len(builder.done) : builder.done[i].len = "ok"
    /\ Len(builder.done) <= builder.size

\* C23: the enumeration never issues again the request it has just made:
\* when the device returns a next StartFileReferenceNumber that does not
\* advance, build_index bails out instead of calling with the same cursor
C23_NoRepeatedRequest == builder.repeats = 0

(***************************************************************************)
(* reconstruct_path on chains deeper than the limit, every link resident   *)
(* and every directory with a name of its own.                             *)
(***************************************************************************)
\* the name of the k-th directory from the bottom: k times "a"
ChainName(k) == [i \in 1..k |-> "a"]

\* a chain of n directories as ChainStore(n), the k-th from the bottom named
\* ChainName(k)
NamedChain(n) ==
    [f \in {Frn(RootIndex + k) : k \in 1..n} \cup {RootFrn} |->
        IF f = RootFrn THEN RootEntry
        ELSE IF f = Frn(RootIndex + n) THEN FileEntry(RootFrn, ChainName(n), TRUE)
        ELSE FileEntry(f + 1, ChainName(f - Frn(RootIndex)), TRUE)]

\* the walks start at one of the lowest directories
ChainTargets == {Frn(RootIndex + k) : k \in 1..OverDepth}

InitChain ==
    /\ ProcIdle
    /\ entries \in {NamedChain(n) : n \in ChainSizes}
    /\ search_index = <<>>
    /\ calls = <<>>
    /\ walk = NoWalk
    /\ writes = 0

NextChain ==
    \/ \E frn \in ChainTargets : WalkBegin(frn)
    \/ WalkLookup
    \/ WalkReturn

SpecChain == InitChain /\ [][NextChain]_vars

\* the number of directories of the chain in the store
ChainLength == Cardinality(DOMAIN entries) - 1

\* the directory the returned walk started at, counted from the bottom
ChainStart == Len(walk.w.parts[1])

\* a walk has returned whose target has more than 50 directories from
\* itself to the top of the chain
DeepWalkReturned ==
    /\ walk.pc = "ret"
    /\ walk.w.parts # <<>>
    /\ ChainLength - ChainStart + 1 > MaxDepth

\* C24: for a target with more than 50 levels up to the root, all resident,
\* reconstruct_path returns a path: the drive prefix and exactly 50 names,
\* the 49th ancestor first and the target last
C24_DeepChainLastFifty ==
    DeepWalkReturned =>
        /\ walk.ret # None
        /\ walk.ret = <<DrivePrefix>> \o
                        [i \in 1..MaxDepth |-> ChainName(ChainStart + MaxDepth - i)]

\* the walk from the bottom of a chain of 52 directories has returned
C24_Witness ==
    /\ DeepWalkReturned
    /\ ChainLength = MaxDepth + 2
    /\ ChainStart = 1
    /\ Len(walk.ret) = 1 + MaxDepth

(***************************************************************************)
(* Claims about the volume handle of build_index.                          *)
(***************************************************************************)
\* build_index is not running: it has not been called, or it has returned
BuildReturned == builder.pc \in {"idle", "save", "spawn"}

\* C25: when build_index has returned, on whatever path, every volume
\* handle it opened is closed
C25_HandleClosedOnReturn == BuildReturned => builder.handles = 0

(***************************************************************************)
(* Claims about the order of build_mft_index.                              *)
(***************************************************************************)
\* the snapshot file carries the anchor build_index returned
CarriesAnchor(file) ==
    /\ file.kind = "ok"
    /\ file.next_usn = builder.u
    /\ file.journal_id = builder.j

\* C26: build_mft_index saves only after build_index has returned, and
\* starts its tailer, from the anchor build_index returned, only after the
\* snapshot with that anchor is written; when build_index or the save
\* fails, Err is returned and no tailer is started; nothing but the save
\* step of the command writes the snapshot file
C26_EnumeratePersistTail ==
    [][/\ (builder.pc # "save" /\ builder'.pc = "save") => builder.pc = "rebuild"
       /\ (builder.pc # "spawn" /\ builder'.pc = "spawn") =>
             /\ builder.pc = "save"
             /\ CarriesAnchor(disk')
       /\ (Len(tailers') > Len(tailers) /\ builder' # builder) =>
             /\ builder.pc = "spawn"
             /\ builder'.res = "ok"
             /\ CarriesAnchor(disk)
             /\ tailers' = Append(tailers, NewTailer(builder.u, builder.j))
       /\ (builder.res # "err" /\ builder'.res = "err") =>
             /\ builder'.pc = "idle"
             /\ tailers' = tailers
       /\ disk' # disk => (builder.pc = "save" /\ tailers' = tailers)]_vars

\* build_mft_index has returned Ok: the snapshot carries its anchor and a
\* tailer runs from it
C26_Witness ==
    /\ builder.pc = "idle"
    /\ builder.res = "ok"
    /\ CarriesAnchor(disk)
    /\ \E t \in Tailers : tailers[t].from = builder.u /\ tailers[t].pc # "open"

(***************************************************************************)
(* Claims about the reason mask.                                           *)
(***************************************************************************)
\* the tailer has just applied a named record with a delete-class and a
\* create-class reason
MixedApplied ==
    /\ calls # <<>>
    /\ calls[1].op = "tail"
    /\ HasName(calls[1].rec)
    /\ calls[1].rec.reason \cap DeleteClass # {}
    /\ calls[1].rec.reason \cap CreateClass # {}

\* the tailer has just applied a named record with neither class of reason
OtherApplied ==
    /\ calls # <<>>
    /\ calls[1].op = "tail"
    /\ HasName(calls[1].rec)
    /\ calls[1].rec.reason \cap (DeleteClass \cup CreateClass) = {}

InitLock ==
    /\ \E f \in FileFrns :
          LET made == MftRecord(RootFrn, <<"a">>, IsDirFrn(f), 1)
          IN  journal = <<JournalRecord(f, made, {"FILE_CREATE"}),
                          JournalRecord(f, made, {"FILE_DELETE"})>>
    /\ vol = [r \in {RootFrn} |-> RootRecord]
    /\ disk = Snapshot(StoreOf(vol), 1, VolJournalId)
    /\ entries = StoreOf(vol)
    /\ search_index = IndexOf(StoreOf(vol))
    /\ loader = LoaderAt("done", disk, {})
    /\ builder = [BuilderAt("rebuild", 1, VolJournalId, RootIndex + 1, 0, "none")
                    EXCEPT !.handles = 1, !.seen = StoreOf(vol)]
    /\ tailers = <<NewTailer(1, VolJournalId)>>
    /\ ready = 1
    /\ readers = 0
    /\ srch = NoSearch
    /\ calls = <<>>
    /\ walk = NoWalk
    /\ writes = 0
    /\ sink = <<>>
    /\ owed = NoneOwed

LockQueries == {<<"a">>}

\* the steps tailer t takes without the Search Index lock
TailFree(t) ==
    \/ TailOpen(t)
    \/ \E k \in 1..Len(journal) : TailRead(t, k)
    \/ TailDelGet(t)
    \/ TailDelRemove(t)
    \/ TailCreInsert(t)
    \/ TailCrePath(t)
    \/ TailEmit(t)

\* the steps tailer t takes under search_index.write()
TailLocked(t) == TailDelIdx(t) \/ TailCreIdx(t)

NextLock ==
    \/ \E query \in LockQueries : SearchBegin(query)
    \/ SearchLookup
    \/ SearchEnd
    \/ BuildRebuild
    \/ BuildSave
    \/ BuildSpawn
    \/ \E t \in Tailers : TailFree(t)
    \/ \E t \in Tailers : TailLocked(t)

\* every thread that can go on does, and a thread that asks for the lock
\* again and again while it is free again and again gets it
FairLock ==
    /\ WF_vars(SearchLookup \/ SearchEnd)
    /\ WF_vars(BuildSave \/ BuildSpawn)
    /\ SF_vars(BuildRebuild)
    /\ \A t \in 1..(MaxBuilds + 1) : WF_vars(t \in Tailers /\ TailFree(t))
    /\ \A t \in 1..(MaxBuilds + 1) : SF_vars(t \in Tailers /\ TailLocked(t))

SpecLock == InitLock /\ [][NextLock]_vars /\ FairLock

\* tailer t has a record in hand
InHand(t) == t \in Tailers /\ tailers[t].pc = "rec" /\ tailers[t].buf # <<>>

\* tailer t is waiting for search_index.write()
WaitsForLock(t) == t \in Tailers /\ tailers[t].pc \in {"d_idx", "c_idx"}

=============================================================================
